---------------------------- MODULE Spec2Model ----------------------------
(***************************************************************************)
(* ClaudeCreditBurner: task graph, orchestrator loop, rate limit manager   *)
(* and checkpoint store, as state machines.                                *)
(*                                                                         *)
(*   Spec      the orchestrator (main.ts: main, executeTaskLoop) over the  *)
(*             task graph (TaskGraph) and the execution state              *)
(*   SpecRate  RateLimitManager.acquirePermit over three TokenBuckets      *)
(*   SpecCkpt  CheckpointManager save / load on a file system that can     *)
(*             lose the process at any step                                *)
(*   SpecMark  TaskGraph status marking and markBlockedTasks               *)
(*   SpecGraph validateAcyclic and topologicalSort on graphs built from    *)
(*             any dependencies                                            *)
(*   SpecBucket one TokenBucket through its public methods, in rounded     *)
(*             floating-point arithmetic                                   *)
(*   SpecLock  RecoveryManager lock methods called one at a time           *)
(*   SpecMain  main's startup, lock and task loop in several processes     *)
(*   SpecStore the checkpoint directory through CheckpointManager's load,    *)
(*             list and cleanup methods and RecoveryManager.recover          *)
(*                                                                         *)
(* Each specification drives its own variables and leaves the others at    *)
(* their idle values.                                                      *)
(***************************************************************************)
EXTENDS Integers, Sequences, FiniteSets, TLC

VARIABLES
    \* ---- orchestrator (main.ts) ----
    pc,            \* position of the main control flow
    taskData,      \* fetched tasks: id -> [dependencies, priority]
    maxParallel,   \* config.execution.maxParallel
    dryRun,        \* config.execution.dryRun
    resumed,       \* this run was started with --resume
    graph,         \* TaskGraph: [order: Seq(id), node: id -> TaskNode]
    state,         \* ExecutionState: completedTasks, failedTasks, inProgressTasks
    batchTaskIds,  \* ids returned by getParallelCandidates
    batchTasks,    \* the Task objects among them (getTask(id) defined)
    attempt,       \* executeWithRetry: attempts made, per batch task
    last,          \* executeWithRetry: outcome of the latest attempt
    result,        \* executeWithRetry: the ExecutionResult returned, per batch task
    ri,            \* index of the batch result being reconciled
    disk,          \* checkpoint record at the run's checkpoint path
    \* ---- rate limit manager ----
    now,           \* Date.now(), in ticks
    bucket,        \* dimension -> [tokens, lastRefill]
    rpc,           \* caller -> position inside acquirePermit
    est,           \* caller -> [input, output] estimates
    wakeAt,        \* caller -> time its sleep ends
    granted,       \* requestCount
    \* ---- checkpoint store ----
    impl,          \* which saveCheckpoint the build links
    memState,      \* the ExecutionState handed to saveCheckpoint
    finalFile,     \* content of the final checkpoint path
    tempFile,      \* content of the temporary path
    prevFile,      \* the complete record that was at the final path before
    cpc,           \* position inside saveCheckpoint / loadCheckpoint
    loaded,        \* result of loadCheckpoint
    \* ---- a TaskGraph and a TokenBucket used through their public methods ----
    tg,            \* TaskGraph: [order, node]
    tgData,        \* its taskData: id -> [dependencies, priority]
    gop,           \* the method called last
    gout,          \* what it returned
    tb,            \* TokenBucket: [capacity, tokens, refillRate, lastRefill]
    tbNow,         \* Date.now()
    call,          \* the TokenBucket method called last and what it returned
    hist,          \* what the callers of the bucket have seen since it was emptied
    \* ---- execution lock (state/recovery.ts) and the processes that start ----
    lockFile,      \* content of data/execution.lock
    lcall,         \* the RecoveryManager method called last and what it returned
    proc,          \* per process: position in main, resume option, completed work
    saved,         \* the latest checkpoint on disk
    \* ---- checkpoint directory (state/checkpoint) ----
    ckDir,         \* checkpoint id -> the file checkpoint-<id>.json
    ckCall,        \* the method called last and what it returned
    \* ---- usage counters and backoff (rate-limit/manager, backoff) ----
    tokenUsage,    \* RateLimitManager.tokenUsage: [input, output, total]
    backoff,       \* ExponentialBackoff: its config and its attempt counter
    bcall          \* the backoff method called last, what it returned, and the
                   \* number of nextDelay calls since construction or reset

orchVars == <<pc, taskData, maxParallel, dryRun, resumed, graph, state,
              batchTaskIds, batchTasks, attempt, last, result, ri, disk>>
rateVars == <<now, bucket, rpc, est, wakeAt, granted>>
ckptVars == <<impl, memState, finalFile, tempFile, prevFile, cpc, loaded>>
graphVars == <<tg, tgData, gop, gout>>
bucketVars == <<tb, tbNow, call, hist>>
storeVars == <<ckDir, ckCall>>
usageVars == <<tokenUsage, backoff, bcall>>
apiVars == <<graphVars, bucketVars, storeVars, usageVars>>
lockVars == <<lockFile, lcall, proc, saved>>
vars == <<orchVars, rateVars, ckptVars, apiVars, lockVars>>

-----------------------------------------------------------------------------
(* Bounds *)

MaxTasks == 3
MaxParallel == 2

TaskIds == 1..MaxTasks

\* main.ts:140  maxRetries: number = 3
MaxRetries == 3

\* rate limiter: concurrent callers, bucket capacities per minute, clock ticks per
\* minute, largest token estimate, last clock value
MaxCallers == 2
RpmCapacity == 2
ItpmCapacity == 2
OtpmCapacity == 1
TicksPerMinute == 2
MaxEstimate == 2
MaxTime == 2

\* checkpoint store: task ids of a saved state, largest counter value, write calls
\* that one writeFileSync takes
MantissaBits == 7
MsPerMinute == 5
MaxCapacity == 2
MaxClock == 6
MaxProcs == 2
MaxWork == 2
\* checkpoint directory: ids of checkpoint files and the timestamps they carry
MaxFiles == 3
MaxStamp == 2
\* backoff: largest base delay and largest maximum delay in ms, most nextDelay
\* calls without a reset; largest value of a usage counter
MaxBaseDelay == 2
MaxDelayMs == 5
MaxAttempt == 3
MaxUsage == 2
MaxCkptTasks == 1
MaxCounter == 1
FileChunks == 2

-----------------------------------------------------------------------------
(* Generic helpers *)

Min(a, b) == IF a <= b THEN a ELSE b
Max(a, b) == IF a >= b THEN a ELSE b

Range(s) == {s[i] : i \in DOMAIN s}

RECURSIVE SetToSeq(_)
SetToSeq(S) ==
    IF S = {} THEN <<>>
    ELSE LET m == CHOOSE x \in S : \A y \in S : x <= y
         IN <<m>> \o SetToSeq(S \ {m})

-----------------------------------------------------------------------------
(* TaskGraph (core/task-graph) *)

NewNode == [dependencies |-> {}, dependents |-> {}, status |-> "pending"]

EmptyGraph == [order |-> <<>>, node |-> <<>>]

HasNode(g, id) == id \in DOMAIN g.node

\* the loop over task.dependencies in addTask: placeholder nodes and reverse edges
RECURSIVE AddDependencies(_, _, _)
AddDependencies(g, id, deps) ==
    IF deps = <<>> THEN g
    ELSE LET d  == Head(deps)
             g1 == IF HasNode(g, d) THEN g
                   ELSE [order |-> Append(g.order, d),
                         node  |-> (d :> NewNode) @@ g.node]
             g2 == [g1 EXCEPT !.node[d].dependents = @ \cup {id}]
         IN AddDependencies(g2, id, Tail(deps))

AddTask(g, id, deps) ==
    LET known == HasNode(g, id)
        g1    == AddDependencies(g, id, SetToSeq(deps))
        \* an existing node is the object the loop updated; a new one is a
        \* local object that replaces whatever the loop put under its id
        base  == IF known THEN g1.node[id] ELSE NewNode
        node  == [base EXCEPT !.dependencies = @ \cup deps]
    IN [order |-> IF HasNode(g1, id) THEN g1.order ELSE Append(g1.order, id),
        node  |-> (id :> node) @@ g1.node]

RECURSIVE BuildGraph(_, _, _)
BuildGraph(g, td, ids) ==
    IF ids = <<>> THEN g
    ELSE BuildGraph(AddTask(g, Head(ids), td[Head(ids)].dependencies), td, Tail(ids))

\* variants of getReadyTasks that leave out one of its tests
GetReadyTasksIgnoringDependencies(g, completedTasks) ==
    SelectSeq(g.order,
              LAMBDA id : /\ id \notin completedTasks
                          /\ g.node[id].status = "pending")

GetReadyTasksIgnoringStatus(g, completedTasks) ==
    SelectSeq(g.order,
              LAMBDA id : /\ id \notin completedTasks
                          /\ g.node[id].dependencies \subseteq completedTasks)

GetReadyTasks(g, completedTasks) ==
    SelectSeq(g.order,
              LAMBDA id : /\ id \notin completedTasks
                          /\ g.node[id].status = "pending"
                          /\ g.node[id].dependencies \subseteq completedTasks)

TaskPriority(td, id) == IF id \in DOMAIN td THEN td[id].priority ELSE 0

\* a sort that puts an element before the elements of equal priority
RECURSIVE InsertBeforeEqual(_, _, _)
InsertBeforeEqual(td, sorted, id) ==
    IF sorted = <<>> THEN <<id>>
    ELSE IF TaskPriority(td, Head(sorted)) > TaskPriority(td, id)
         THEN <<Head(sorted)>> \o InsertBeforeEqual(td, Tail(sorted), id)
         ELSE <<id>> \o sorted

\* Array.prototype.sort is stable: insert each element after every element whose
\* priority is not lower
RECURSIVE InsertByPriority(_, _, _)
InsertByPriority(td, sorted, id) ==
    IF sorted = <<>> THEN <<id>>
    ELSE IF TaskPriority(td, Head(sorted)) >= TaskPriority(td, id)
         THEN <<Head(sorted)>> \o InsertByPriority(td, Tail(sorted), id)
         ELSE <<id>> \o sorted

RECURSIVE SortByPriority(_, _, _)
SortByPriority(td, sorted, rest) ==
    IF rest = <<>> THEN sorted
    ELSE SortByPriority(td, InsertByPriority(td, sorted, Head(rest)), Tail(rest))

\* a variant of the selection that returns no candidate
GetNoCandidates(g, td, readyTasks, maxPar) == <<>>

GetParallelCandidates(g, td, readyTasks, maxPar) ==
    LET sorted == SortByPriority(td, <<>>, readyTasks)
    IN SubSeq(sorted, 1, Min(Len(sorted), maxPar))

SetStatus(g, id, st) ==
    IF HasNode(g, id) THEN [g EXCEPT !.node[id].status = st] ELSE g

MarkCompleted(g, id) == SetStatus(g, id, "completed")
MarkFailed(g, id)    == SetStatus(g, id, "failed")
MarkExecuting(g, id) == SetStatus(g, id, "executing")

RECURSIVE MarkAll(_, _, _)
MarkAll(g, ids, st) ==
    IF ids = <<>> THEN g ELSE MarkAll(SetStatus(g, Head(ids), st), Tail(ids), st)

\* propagateBlocked: depth first over the dependents that are still pending
RECURSIVE PropagateBlocked(_, _)
RECURSIVE PropagateOver(_, _)
\* a variant of the loop over the dependents that does not descend
RECURSIVE PropagateOverDirect(_, _)
PropagateOverDirect(g, dependents) ==
    IF dependents = <<>> THEN g
    ELSE LET d == Head(dependents)
         IN IF HasNode(g, d) /\ g.node[d].status = "pending"
            THEN PropagateOverDirect([g EXCEPT !.node[d].status = "blocked"],
                                     Tail(dependents))
            ELSE PropagateOverDirect(g, Tail(dependents))
PropagateOver(g, dependents) ==
    IF dependents = <<>> THEN g
    ELSE LET d == Head(dependents)
         IN IF HasNode(g, d) /\ g.node[d].status = "pending"
            THEN PropagateOver(
                     PropagateBlocked([g EXCEPT !.node[d].status = "blocked"], d),
                     Tail(dependents))
            ELSE PropagateOver(g, Tail(dependents))
PropagateBlocked(g, failedId) ==
    IF ~HasNode(g, failedId) THEN g
    ELSE PropagateOver(g, SetToSeq(g.node[failedId].dependents))

RECURSIVE MarkBlockedTasks(_, _)
MarkBlockedTasks(g, failedIds) ==
    IF failedIds = <<>> THEN g
    ELSE MarkBlockedTasks(PropagateBlocked(g, Head(failedIds)), Tail(failedIds))

IsComplete(g) ==
    \A n \in DOMAIN g.node : g.node[n].status \notin {"pending", "executing", "ready"}

StatusCount(g, st) == Cardinality({n \in DOMAIN g.node : g.node[n].status = st})

GetTask(td, id) == id \in DOMAIN td

\* indexOf: the first position of x in path, 0 when there is none (-1 in the code)
IndexOf(path, x) ==
    IF \E i \in DOMAIN path : path[i] = x
    THEN CHOOSE i \in DOMAIN path : path[i] = x /\ \A j \in 1..(i - 1) : path[j] # x
    ELSE 0

\* [...path.slice(cycleStart), depId]; slice(-1) is the last element
CycleFrom(path, depId) ==
    LET i == IndexOf(path, depId)
    IN Append(IF i = 0 THEN SubSeq(path, Len(path), Len(path))
              ELSE SubSeq(path, i, Len(path)),
              depId)

\* detectCycle(nodeId, path): s holds visited, recursionStack and cycles; the
\* result adds whether the call returned true
RECURSIVE DetectCycle(_, _, _, _)
RECURSIVE DetectOver(_, _, _, _, _)
DetectOver(g, nodeId, deps, path, s) ==
    IF deps = <<>>
    THEN [s EXCEPT !.stack = @ \ {nodeId}, !.found = FALSE]
    ELSE LET d == Head(deps)
         IN IF d \notin s.visited
            THEN LET r == DetectCycle(g, d, path, s)
                 IN IF r.found THEN r ELSE DetectOver(g, nodeId, Tail(deps), path, r)
            ELSE IF d \in s.stack
                 THEN [s EXCEPT !.cycles = Append(@, CycleFrom(path, d)),
                                !.found = TRUE]
                 ELSE DetectOver(g, nodeId, Tail(deps), path, s)
DetectCycle(g, nodeId, path, s) ==
    LET s1 == [s EXCEPT !.visited = @ \cup {nodeId}, !.stack = @ \cup {nodeId}]
    IN IF ~HasNode(g, nodeId) THEN [s1 EXCEPT !.found = FALSE]
       ELSE DetectOver(g, nodeId, SetToSeq(g.node[nodeId].dependencies),
                       Append(path, nodeId), s1)

\* for (const nodeId of this.nodes.keys()) if (!visited.has(nodeId)) detectCycle(..)
RECURSIVE DetectAll(_, _, _)
DetectAll(g, ids, s) ==
    IF ids = <<>> THEN s
    ELSE IF Head(ids) \in s.visited THEN DetectAll(g, Tail(ids), s)
         ELSE DetectAll(g, Tail(ids), DetectCycle(g, Head(ids), <<>>, s))

\* a variant of the result that counts orphaned dependencies as invalid
ValidateOrphansInvalid(g, td) ==
    LET s == DetectAll(g, g.order,
                       [visited |-> {}, stack |-> {}, cycles |-> <<>>, found |-> FALSE])
        orphaned == {n \in DOMAIN g.node :
                        \E d \in g.node[n].dependencies : d \notin DOMAIN td}
    IN [valid    |-> s.cycles = <<>> /\ orphaned = {},
        cycles   |-> s.cycles,
        orphaned |-> orphaned,
        list     |-> <<>>]

ValidateAcyclic(g, td) ==
    LET s == DetectAll(g, g.order,
                       [visited |-> {}, stack |-> {}, cycles |-> <<>>, found |-> FALSE])
    IN [valid    |-> s.cycles = <<>>,
        cycles   |-> s.cycles,
        orphaned |-> {n \in DOMAIN g.node :
                         \E d \in g.node[n].dependencies : d \notin DOMAIN td},
        list     |-> <<>>]

\* the nodes that node n depends on, directly or through other nodes
RECURSIVE DependsOn(_, _, _)
DependsOn(g, n, R) ==
    LET more == {d \in DOMAIN g.node :
                    d \notin R /\ \E x \in ({n} \cup R) \cap DOMAIN g.node :
                                     d \in g.node[x].dependencies}
    IN IF more = {} THEN R ELSE DependsOn(g, n, R \cup more)

HasCycle(g) == \E n \in DOMAIN g.node : n \in DependsOn(g, n, {})

-----------------------------------------------------------------------------
(* ExecutionState and the checkpoint record of the run *)

NoCheckpoint == [exists |-> FALSE]

EmptyState == [completedTasks |-> {}, failedTasks |-> <<>>, inProgressTasks |-> {}]

FailedIds(st) == DOMAIN st.failedTasks

\* saveCheckpoint(state): the record at the run's checkpoint path is overwritten
CheckpointOf(st) ==
    [exists |-> TRUE,
     completedTasks  |-> st.completedTasks,
     failedTasks     |-> st.failedTasks,
     inProgressTasks |-> st.inProgressTasks]

\* loadCheckpoint / loadLatestCheckpoint on that record
StateOf(rec) ==
    [completedTasks  |-> rec.completedTasks,
     failedTasks     |-> rec.failedTasks,
     inProgressTasks |-> rec.inProgressTasks]

-----------------------------------------------------------------------------
(* Orchestrator: main and executeTaskLoop (main.ts) *)

\* what one attempt of executeWithRetry can end in: a successful result, a failed
\* result flagged retryable, a failed result not flagged retryable, an exception
Outcomes == {"success", "retryable", "nonretryable", "threw"}

\* Task.priority of the fetched tasks: 1, 5 and 3 for the first three ids, and 3
\* again for later ids, so that equal priorities occur; an id that was not
\* fetched has no task data and sorts with priority 0
PriorityOf(id) == IF id = 1 THEN 1 ELSE IF id = 2 THEN 5 ELSE 3

\* task sets: every subset of the ids fetched, in id order, each task depending on
\* earlier ids only (fetched or not), so that validateAcyclic passes
RECURSIVE TaskConfigs(_)
TaskConfigs(n) ==
    IF n = 0 THEN {<<>>}
    ELSE LET prev == TaskConfigs(n - 1)
         IN prev \cup
            {(n :> [dependencies |-> D, priority |-> PriorityOf(n)]) @@ c :
                c \in prev, D \in SUBSET (1..(n - 1))}

AllTasks(td) == SetToSeq(DOMAIN td)

\* the first k ids depending on one another in a ring (k = 1: on itself)
Ring(k) ==
    [i \in 1..k |-> [dependencies |-> {IF i = 1 THEN k ELSE i - 1},
                     priority |-> PriorityOf(i)]]

\* task sets with a dependency cycle: a ring of the first k ids, and each later
\* id not fetched, independent, or depending on a task of the ring
CyclicConfigs(n) ==
    UNION {{Ring(k) @@ [t \in DOMAIN D |-> [dependencies |-> D[t],
                                            priority |-> PriorityOf(t)]] :
                D \in UNION {[R -> {{}, {1}}] : R \in SUBSET ((k + 1)..n)}} :
            k \in 1..n}

NoAttempts == [t \in {} |-> 0]

RateCkptIdle == UNCHANGED <<rateVars, ckptVars, apiVars, lockVars>>

InitOrch ==
    /\ pc = "fetch"
    /\ taskData \in TaskConfigs(MaxTasks) \cup CyclicConfigs(MaxTasks)
    /\ maxParallel \in 1..MaxParallel
    /\ dryRun \in BOOLEAN
    /\ resumed = FALSE
    /\ graph = EmptyGraph
    /\ state = EmptyState
    /\ batchTaskIds = <<>>
    /\ batchTasks = <<>>
    /\ attempt = NoAttempts
    /\ last = NoAttempts
    /\ result = NoAttempts
    /\ ri = 0
    /\ disk = NoCheckpoint

IdleOrch ==
    /\ pc = "idle"
    /\ taskData = <<>>
    /\ maxParallel = 1
    /\ dryRun = FALSE
    /\ resumed = FALSE
    /\ graph = EmptyGraph
    /\ state = EmptyState
    /\ batchTaskIds = <<>>
    /\ batchTasks = <<>>
    /\ attempt = NoAttempts
    /\ last = NoAttempts
    /\ result = NoAttempts
    /\ ri = 0
    /\ disk = NoCheckpoint

\* the process is gone: nothing of its memory remains, the disk does
ProcessEndsAt(place) ==
    /\ pc' = place
    /\ graph' = EmptyGraph
    /\ state' = EmptyState
    /\ batchTaskIds' = <<>>
    /\ batchTasks' = <<>>
    /\ attempt' = NoAttempts
    /\ last' = NoAttempts
    /\ result' = NoAttempts
    /\ ri' = 0

ProcessEnds ==
    /\ pc' = "exited"
    /\ graph' = EmptyGraph
    /\ state' = EmptyState
    /\ batchTaskIds' = <<>>
    /\ batchTasks' = <<>>
    /\ attempt' = NoAttempts
    /\ last' = NoAttempts
    /\ result' = NoAttempts
    /\ ri' = 0

\* a variant of the start of executeTaskLoop that does not validate the graph
FetchAndBuildUnchecked ==
    /\ pc = "fetch"
    /\ IF DOMAIN taskData = {}
       THEN /\ pc' = "disconnect"
            /\ graph' = graph
       ELSE /\ graph' = BuildGraph(EmptyGraph, taskData, AllTasks(taskData))
            /\ pc' = "restore"
    /\ UNCHANGED <<taskData, maxParallel, dryRun, resumed, state, batchTaskIds,
                   batchTasks, attempt, last, result, ri, disk>>
    /\ RateCkptIdle

\* main.ts:45-79: fetchTasks returned; the graph is built and validated.  With a
\* cycle executeTaskLoop throws, and the catch block of main (main.ts:452-462)
\* saves the state and exits with status 1
FetchAndBuild ==
    /\ pc = "fetch"
    /\ \E g \in {BuildGraph(EmptyGraph, taskData, AllTasks(taskData))} :
          IF DOMAIN taskData = {}
          THEN /\ pc' = "disconnect"
               /\ UNCHANGED <<graph, state, batchTaskIds, batchTasks, attempt, last,
                              result, ri, disk>>
          ELSE IF ~ValidateAcyclic(g, taskData).valid
               THEN /\ disk' = CheckpointOf(state)
                    /\ ProcessEndsAt("fatal")
               ELSE /\ graph' = g
                    /\ pc' = "restore"
                    /\ UNCHANGED <<state, batchTaskIds, batchTasks, attempt, last,
                                   result, ri, disk>>
    /\ UNCHANGED <<taskData, maxParallel, dryRun, resumed>>
    /\ RateCkptIdle

\* a variant of the restore that marks the completed tasks only
RestoreCompletedOnly(g, st) == MarkAll(g, SetToSeq(st.completedTasks), "completed")

\* a variant of the restore that does not block the dependents of failed tasks
RestoreWithoutBlocking(g, st) ==
    MarkAll(MarkAll(g, SetToSeq(st.completedTasks), "completed"),
            SetToSeq(FailedIds(st)), "failed")

\* main.ts:81-90: completed and failed tasks of the state are marked in the graph
RestoreStatus(g, st) ==
    LET g1 == MarkAll(g, SetToSeq(st.completedTasks), "completed")
        g2 == MarkAll(g1, SetToSeq(FailedIds(st)), "failed")
    IN MarkBlockedTasks(g2, SetToSeq(FailedIds(st)))

Restore ==
    /\ pc = "restore"
    /\ graph' = RestoreStatus(graph, state)
    /\ pc' = "loop"
    /\ UNCHANGED <<taskData, maxParallel, dryRun, resumed, state, batchTaskIds,
                   batchTasks, attempt, last, result, ri, disk>>
    /\ RateCkptIdle

RECURSIVE AddAll(_, _)
AddAll(S, ids) == IF ids = <<>> THEN S ELSE AddAll(S \cup {Head(ids)}, Tail(ids))

\* main.ts:104-135 and 207-212: the loop head up to the await of the batch
SelectBatch ==
    /\ pc = "loop"
    /\ LET readyTasks == GetReadyTasks(graph, state.completedTasks)
           ids        == GetParallelCandidates(graph, taskData, readyTasks, maxParallel)
       IN IF IsComplete(graph) \/ readyTasks = <<>>
          THEN /\ pc' = "disconnect"
               /\ UNCHANGED <<graph, state, batchTaskIds, batchTasks, attempt, last,
                              result>>
          ELSE /\ batchTaskIds' = ids
               /\ batchTasks' = SelectSeq(ids, LAMBDA id : GetTask(taskData, id))
               /\ graph' = MarkAll(graph, ids, "executing")
               /\ state' = [state EXCEPT !.inProgressTasks = AddAll(@, ids)]
               /\ attempt' = [t \in Range(batchTasks') |-> 0]
               /\ last' = [t \in Range(batchTasks') |-> "none"]
               /\ result' = [t \in Range(batchTasks') |-> "running"]
               /\ pc' = "executing"
    /\ UNCHANGED <<taskData, maxParallel, dryRun, resumed, ri, disk>>
    /\ RateCkptIdle

\* a variant of the retry test that goes round again after any failure
RetryAnyFailure(o, a) == o # "success" /\ a < MaxRetries - 1

\* main.ts:165 and 181: does the for loop of executeWithRetry go round again after
\* attempt number a (0-based) ended in outcome o
RetryAfter(o, a) ==
    \/ o = "retryable" /\ a < MaxRetries - 1
    \/ o = "threw" /\ a + 1 < MaxRetries

\* main.ts:176 and 193-204: what executeWithRetry returns when it does not
ResultOf(o) ==
    CASE o = "success"      -> "success"
      [] o = "retryable"    -> "RETRYABLE"
      [] o = "nonretryable" -> "NONRETRYABLE"
      [] o = "threw"        -> "EXECUTION_ERROR"

\* main.ts:144-190: one attempt of one task of the batch, to its end; when
\* executeWithRetry returns, only its result is left
Attempt(t, o) ==
    /\ pc = "executing"
    /\ t \in Range(batchTasks)
    /\ result[t] = "running"
    /\ IF RetryAfter(o, attempt[t])
       THEN /\ attempt' = [attempt EXCEPT ![t] = @ + 1]
            /\ last' = [last EXCEPT ![t] = o]
            /\ result' = result
       ELSE /\ attempt' = [attempt EXCEPT ![t] = 0]
            /\ last' = [last EXCEPT ![t] = "none"]
            /\ result' = [result EXCEPT ![t] = ResultOf(o)]
    /\ UNCHANGED <<pc, taskData, maxParallel, dryRun, resumed, graph, state,
                   batchTaskIds, batchTasks, ri, disk>>
    /\ RateCkptIdle

\* a variant of the await that resolves as soon as one promise has settled
AnySettled(res) == \E t \in DOMAIN res : res[t] # "running"

\* main.ts:212: Promise.allSettled resolves once every promise has settled
AllSettled(res) == \A t \in DOMAIN res : res[t] # "running"

Settle ==
    /\ pc = "executing"
    /\ AllSettled(result)
    /\ pc' = "reconcile"
    /\ ri' = 1
    /\ UNCHANGED <<taskData, maxParallel, dryRun, resumed, graph, state,
                   batchTaskIds, batchTasks, attempt, last, result, disk>>
    /\ RateCkptIdle

\* main.ts:241-247 and 257-260: the result enters the state and the graph
RecordResult(g, st, t, res) ==
    IF res = "success"
    THEN [g  |-> MarkCompleted(g, t),
          st |-> [st EXCEPT !.completedTasks = @ \cup {t}]]
    ELSE [g  |-> MarkFailed(g, t),
          st |-> [st EXCEPT !.failedTasks = (t :> res) @@ @]]

\* main.ts:271-279: dependents are blocked and the task leaves in-progress
FinishResult(g, st, t, res) ==
    [g  |-> IF res = "success" THEN g ELSE MarkBlockedTasks(g, <<t>>),
     st |-> [st EXCEPT !.inProgressTasks = @ \ {t}]]

\* main.ts:217-280, one iteration; it awaits the status sink unless dryRun
ReconcileBegin ==
    /\ pc = "reconcile"
    /\ ri <= Len(batchTasks)
    /\ LET t  == batchTasks[ri]
           r1 == RecordResult(graph, state, t, result[t])
           r2 == FinishResult(r1.g, r1.st, t, result[t])
       IN IF dryRun
          THEN /\ graph' = r2.g
               /\ state' = r2.st
               /\ ri' = ri + 1
               /\ pc' = "reconcile"
          ELSE /\ graph' = r1.g
               /\ state' = r1.st
               /\ ri' = ri
               /\ pc' = "sink"
    /\ UNCHANGED <<taskData, maxParallel, dryRun, resumed, batchTaskIds,
                   batchTasks, attempt, last, result, disk>>
    /\ RateCkptIdle

ReconcileFinish ==
    /\ pc = "sink"
    /\ LET t  == batchTasks[ri]
           r2 == FinishResult(graph, state, t, result[t])
       IN /\ graph' = r2.g
          /\ state' = r2.st
    /\ ri' = ri + 1
    /\ pc' = "reconcile"
    /\ UNCHANGED <<taskData, maxParallel, dryRun, resumed, batchTaskIds,
                   batchTasks, attempt, last, result, disk>>
    /\ RateCkptIdle

\* a variant of the end of the batch that goes back to the loop head without
\* writing the checkpoint
NextBatchWithoutCheckpoint ==
    /\ pc = "reconcile"
    /\ ri > Len(batchTasks)
    /\ pc' = "loop"
    /\ batchTaskIds' = <<>>
    /\ batchTasks' = <<>>
    /\ attempt' = NoAttempts
    /\ last' = NoAttempts
    /\ result' = NoAttempts
    /\ ri' = 0
    /\ UNCHANGED <<taskData, maxParallel, dryRun, resumed, graph, state, disk>>
    /\ RateCkptIdle

\* main.ts:282-285: the checkpoint after the whole batch
SaveBatchCheckpoint ==
    /\ pc = "reconcile"
    /\ ri > Len(batchTasks)
    /\ disk' = CheckpointOf(state)
    /\ pc' = "loop"
    /\ batchTaskIds' = <<>>
    /\ batchTasks' = <<>>
    /\ attempt' = NoAttempts
    /\ last' = NoAttempts
    /\ result' = NoAttempts
    /\ ri' = 0
    /\ UNCHANGED <<taskData, maxParallel, dryRun, resumed, graph, state>>
    /\ RateCkptIdle

\* main.ts:452-462: a status sink call throws; main saves the state and exits
SinkThrows ==
    /\ pc = "sink"
    /\ disk' = CheckpointOf(state)
    /\ ProcessEnds
    /\ UNCHANGED <<taskData, maxParallel, dryRun, resumed>>
    /\ RateCkptIdle

\* main.ts:444-449: the loop is over; disconnect, then the final checkpoint
FinalSave ==
    /\ pc = "disconnect"
    /\ disk' = CheckpointOf(state)
    /\ ProcessEnds
    /\ UNCHANGED <<taskData, maxParallel, dryRun, resumed>>
    /\ RateCkptIdle

\* the points where main's control flow is suspended in an await
Awaiting == pc \in {"fetch", "executing", "sink", "disconnect"}

\* recovery.ts:188-204 with main.ts:396-399: SIGINT or SIGTERM arrives while the
\* control flow awaits; the shutdown callback saves the state, the process exits
Signal ==
    /\ Awaiting
    /\ disk' = CheckpointOf(state)
    /\ ProcessEnds
    /\ UNCHANGED <<taskData, maxParallel, dryRun, resumed>>
    /\ RateCkptIdle

\* main.ts:369-383: a new process started with --resume loads the checkpoint
Resume ==
    /\ pc \in {"exited", "fatal"}
    /\ ~resumed
    /\ disk.exists
    /\ state' = StateOf(disk)
    /\ resumed' = TRUE
    /\ pc' = "fetch"
    /\ UNCHANGED <<taskData, maxParallel, dryRun, graph, batchTaskIds, batchTasks,
                   attempt, last, result, ri, disk>>
    /\ RateCkptIdle

NextOrch ==
    \/ FetchAndBuild
    \/ Restore
    \/ SelectBatch
    \/ \E t \in TaskIds, o \in Outcomes : Attempt(t, o)
    \/ Settle
    \/ ReconcileBegin
    \/ ReconcileFinish
    \/ SaveBatchCheckpoint
    \/ SinkThrows
    \/ FinalSave
    \/ Signal
    \/ Resume

-----------------------------------------------------------------------------
(* Orchestrator properties *)

Status(n) == graph.node[n].status

DiskCompleted == IF disk.exists THEN disk.completedTasks ELSE {}
DiskFailed    == IF disk.exists THEN DOMAIN disk.failedTasks ELSE {}

\* C1: getReadyTasks(S) returns no node with a dependency outside S, for every
\* completed-set S and every graph of a run (the graph of an executing batch is the
\* graph its reconciliation starts from), and every node that is executing was
\* dispatched with all its dependencies in the completed set
C1_ReadyRespectsDependencies ==
    /\ pc # "executing" =>
          \A S \in SUBSET TaskIds :
             \A id \in Range(GetReadyTasks(graph, S)) :
                graph.node[id].dependencies \subseteq S
    /\ \A n \in DOMAIN graph.node :
          Status(n) = "executing" =>
             graph.node[n].dependencies \subseteq state.completedTasks

C1_Witness ==
    \E n \in DOMAIN graph.node :
       /\ Status(n) = "executing"
       /\ graph.node[n].dependencies # {}

\* the step of the loop head that marks a batch executing
Dispatches == pc = "loop" /\ pc' = "executing"

\* C5: when a batch is dispatched, no task of an earlier batch is still executing,
\* every completed or failed task is in the state, and the checkpoint on disk holds
\* exactly the state's completed set and failed map; at all times the state is
\* ahead of the disk by results of the current batch only
C5_BatchesSequential ==
    [][/\ Dispatches =>
            /\ \A t \in DOMAIN taskData :
                  /\ Status(t) # "executing"
                  /\ Status(t) = "completed" => t \in state.completedTasks
                  /\ Status(t) = "failed" => t \in FailedIds(state)
            /\ state.completedTasks = DiskCompleted
            /\ FailedIds(state) = DiskFailed
       /\ pc' \notin {"exited"} =>
            /\ (state.completedTasks \ DiskCompleted)' \subseteq Range(batchTasks')
            /\ (FailedIds(state) \ DiskFailed)' \subseteq Range(batchTasks')
      ]_vars

C5_Witness ==
    /\ pc = "executing"
    /\ disk.exists
    /\ disk.completedTasks # {}
    /\ ~resumed

\* C6: the checkpoint written at the end of a batch persists an empty in-progress set
C6_BatchCheckpointInProgressEmpty ==
    [][(pc = "reconcile" /\ pc' = "loop") => disk'.inProgressTasks = {}]_vars

\* C7: every checkpoint record on disk is a fully reconciled frontier, with no task
\* in progress
C7_CheckpointFullyReconciled ==
    disk.exists => disk.inProgressTasks = {}

\* C8: no task id is both completed and failed
C8_CompletedFailedDisjoint ==
    state.completedTasks \cap FailedIds(state) = {}

C8_Witness ==
    /\ state.completedTasks # {}
    /\ FailedIds(state) # {}
    /\ resumed

LegalTransitions ==
    {<<"pending", "executing">>, <<"executing", "completed">>,
     <<"executing", "failed">>, <<"pending", "blocked">>}

RestoreTransitions ==
    {<<"pending", "completed">>, <<"pending", "failed">>}

StatusChanges ==
    {<<Status(n), Status(n)'>> :
        n \in {m \in DOMAIN graph.node \cap DOMAIN graph'.node : Status(m)' # Status(m)}}

\* C9 as stated: every status change is pending->executing, executing->completed,
\* executing->failed or pending->blocked
C9_OnlyLegalTransitions ==
    [][StatusChanges \subseteq LegalTransitions]_vars

\* C9 amended: the above, or pending->completed / pending->failed while a run
\* restores the statuses of its execution state before the first batch
C9_LegalOrRestoreTransitions ==
    [][/\ StatusChanges \subseteq LegalTransitions \cup RestoreTransitions
       /\ pc # "restore" => StatusChanges \subseteq LegalTransitions]_vars

C9_Witness ==
    /\ resumed
    /\ pc = "loop"
    /\ \E n \in DOMAIN graph.node : Status(n) = "completed"
    /\ \E n \in DOMAIN graph.node : Status(n) = "failed"
    /\ \E n \in DOMAIN graph.node : Status(n) = "blocked"

\* the task set A -> B: two fetched tasks, the second depending on the first
ChainAB ==
    /\ DOMAIN taskData = {1, 2}
    /\ taskData[1].dependencies = {}
    /\ taskData[2].dependencies = {1}

\* C10: a task is attempted at most MaxRetries times; an attempt after the first
\* follows only a retryable failure or an exception; a retryable failure is
\* returned only from the last attempt; a failed result is recorded failed with
\* no dependent left pending; on A -> B with A failed the final counts are
\* completed 0, failed 1, blocked 1, pending 0
C10_RetryPolicy ==
    [][/\ \A t \in DOMAIN result \cap DOMAIN result' :
             (attempt'[t] # attempt[t] \/ result'[t] # result[t]) =>
                /\ attempt[t] < MaxRetries
                /\ attempt[t] > 0 => last[t] \in {"retryable", "threw"}
                /\ result'[t] = "running" =>
                      /\ attempt'[t] = attempt[t] + 1
                      /\ attempt'[t] < MaxRetries
                      /\ last'[t] \in {"retryable", "threw"}
                /\ result'[t] = "RETRYABLE" => attempt[t] = MaxRetries - 1
       /\ IF (pc = "sink" \/ (pc = "reconcile" /\ dryRun)) /\ pc' = "reconcile"
          THEN LET t == batchTasks[ri]
               IN result[t] # "success" =>
                     /\ t \in FailedIds(state')
                     /\ graph'.node[t].status = "failed"
                     /\ \A d \in graph'.node[t].dependents :
                           graph'.node[d].status # "pending"
          ELSE TRUE
       /\ (pc' = "disconnect" /\ ChainAB /\ 1 \in FailedIds(state')) =>
             /\ StatusCount(graph', "completed") = 0
             /\ StatusCount(graph', "failed") = 1
             /\ StatusCount(graph', "blocked") = 1
             /\ StatusCount(graph', "pending") = 0
      ]_vars

C10_Witness ==
    /\ pc = "disconnect"
    /\ ChainAB
    /\ ~resumed
    /\ 1 \in FailedIds(state)
    /\ state.failedTasks[1] = "RETRYABLE"
    /\ Status(2) = "blocked"

\* every array of ready ids a caller can pass, repeated ids included
ReadyLists == UNION {[1..k -> TaskIds] : k \in 0..MaxTasks}

\* the place of element i of ready in a stable sort by descending priority: one
\* more than the number of elements that have a higher priority, or the same
\* priority and an earlier position
StableRank(td, ready, i) ==
    1 + Cardinality({j \in 1..Len(ready) :
            \/ TaskPriority(td, ready[j]) > TaskPriority(td, ready[i])
            \/ /\ TaskPriority(td, ready[j]) = TaskPriority(td, ready[i])
               /\ j < i})

FirstByPriority(td, ready, maxPar) ==
    [r \in 1..Min(Len(ready), maxPar) |->
        ready[CHOOSE i \in 1..Len(ready) : StableRank(td, ready, i) = r]]

ThreeIndependent ==
    /\ DOMAIN taskData = {1, 2, 3}
    /\ \A t \in {1, 2, 3} : /\ taskData[t].dependencies = {}
                            /\ taskData[t].priority = PriorityOf(t)

\* C14: getParallelCandidates(ready, maxParallel) is the first
\* min(|ready|, maxParallel) elements of ready in a stable sort by descending
\* priority, for every array of ids and every limit; and on a new run of three
\* independent tasks of priorities 1, 5, 3 with maxParallel = 2 the first batch is
\* the priority-5 task followed by the priority-3 task and the second batch is the
\* priority-1 task
C14_CandidatesByPriority ==
    [][/\ (pc = "fetch" /\ ~resumed /\ ~dryRun /\ maxParallel = 1) =>
            \A ready \in ReadyLists, maxPar \in 0..MaxTasks :
                GetParallelCandidates(graph, taskData, ready, maxPar)
                    = FirstByPriority(taskData, ready, maxPar)
       /\ (Dispatches /\ ThreeIndependent /\ maxParallel = 2 /\ ~resumed) =>
            batchTaskIds' = IF \A t \in {1, 2, 3} : Status(t) = "pending"
                            THEN <<2, 3>>
                            ELSE <<1>>
      ]_vars

C14_Witness ==
    /\ pc = "executing"
    /\ ThreeIndependent
    /\ maxParallel = 2
    /\ ~resumed
    /\ batchTaskIds = <<1>>
    /\ state.completedTasks \cup FailedIds(state) = {2, 3}

\* C20: on a run resumed from a checkpoint no task of the checkpoint's completed
\* set or failed map is dispatched; whenever a batch is selected every failed
\* task of the graph has status failed and no pending task depends on a failed
\* or blocked one; and every dispatched task has all its dependencies completed
C20_ResumedRunSkipsSettled ==
    [][/\ (resumed /\ pc = "loop") =>
            /\ \A t \in (DiskFailed \cup FailedIds(state)) \cap DOMAIN graph.node :
                  Status(t) = "failed"
            /\ \A n \in DOMAIN graph.node :
                  Status(n) = "pending" =>
                      \A d \in graph.node[n].dependencies :
                          Status(d) \notin {"failed", "blocked"}
       /\ (resumed /\ Dispatches) =>
            \A t \in Range(batchTaskIds') :
                /\ t \notin DiskCompleted \cup DiskFailed
                /\ t \notin state.completedTasks \cup FailedIds(state)
                /\ graph.node[t].dependencies \subseteq state.completedTasks
      ]_vars

\* a resumed run has dispatched a task whose dependency the checkpoint records
\* as completed, while the checkpoint also records a failed task
C20_Witness ==
    /\ resumed
    /\ pc = "executing"
    /\ DiskFailed # {}
    /\ \E t \in Range(batchTaskIds) :
          /\ graph.node[t].dependencies # {}
          /\ graph.node[t].dependencies \subseteq DiskCompleted

-----------------------------------------------------------------------------
(* TokenBucket (rate-limit/token-bucket.ts).  Token levels are kept in units of   *)
(* 1/TicksPerMinute token, so that the refill of one tick, capacity/TicksPerMinute *)
(* tokens, is the integer Capacity(b).                                             *)

Dimensions == {"rpm", "itpm", "otpm"}

Callers == 1..MaxCallers

Capacity(b) ==
    CASE b = "rpm"  -> RpmCapacity
      [] b = "itpm" -> ItpmCapacity
      [] b = "otpm" -> OtpmCapacity

Units(n) == n * TicksPerMinute

\* constructor: full, refilled now
NewBucket(b, t) == [tokens |-> Units(Capacity(b)), lastRefill |-> t]

\* refill(): tokens = min(capacity, tokens + elapsed * refillRate)
Refill(b, bk, t) ==
    [tokens     |-> Min(Units(Capacity(b)), bk.tokens + (t - bk.lastRefill) * Capacity(b)),
     lastRefill |-> t]

CanConsume(b, bk, t, count) == Refill(b, bk, t).tokens >= Units(count)

\* a variant of tryConsume that takes what there is when there is too little
TryConsumeRegardless(b, bk, t, count) ==
    LET r == Refill(b, bk, t)
    IN [r EXCEPT !.tokens = Max(0, @ - Units(count))]

\* tryConsume(count): the bucket afterwards
TryConsume(b, bk, t, count) ==
    LET r == Refill(b, bk, t)
    IN IF r.tokens >= Units(count)
       THEN [r EXCEPT !.tokens = @ - Units(count)]
       ELSE r

\* getWaitTime(count), in ticks: ceil(deficit / refillRate)
GetWaitTime(b, bk, t, count) ==
    LET r       == Refill(b, bk, t)
        deficit == Units(count) - r.tokens
    IN IF r.tokens >= Units(count) THEN 0
       ELSE (deficit + Capacity(b) - 1) \div Capacity(b)

GetAvailable(b, bk, t) == Refill(b, bk, t).tokens

\* a variant of setTokens that stores the count as it is given
SetTokensUnclamped(b, bk, t, units) == [tokens |-> units, lastRefill |-> t]

\* setTokens(count), count in units
SetTokens(b, bk, t, units) ==
    [tokens |-> Min(Units(Capacity(b)), Max(0, units)), lastRefill |-> t]

-----------------------------------------------------------------------------
(* RateLimitManager.acquirePermit (rate-limit/manager) *)

\* manager:66 and 76: rpmBucket.setTokens(rpmBucket.getAvailable() + 1)
RestoreRequest(bks, t) ==
    [bks EXCEPT !["rpm"] =
        SetTokens("rpm", @, t, GetAvailable("rpm", @, t) + Units(1))]

\* manager:66: the input check failed
RollbackInputFailure(bks, t) == RestoreRequest(bks, t)

\* a variant of the rollback after a failed output check that puts back the
\* request token only
RollbackRequestOnly(bks, t, estIn) == RestoreRequest(bks, t)

\* manager:76-77: the output check failed
RollbackOutputFailure(bks, t, estIn) ==
    [RestoreRequest(bks, t) EXCEPT !["itpm"] =
        SetTokens("itpm", @, t, GetAvailable("itpm", @, t) + Units(estIn))]

\* one pass of the while loop of acquirePermit, up to its sleep or its return:
\* the buckets afterwards, where the caller is then, and for how long it sleeps
PermitAttempt(bks, t, estIn, estOut) ==
    LET b1 == [bks EXCEPT !["rpm"] = TryConsume("rpm", @, t, 1)]
        b2 == [b1 EXCEPT !["itpm"] = TryConsume("itpm", @, t, estIn)]
        b3 == [b2 EXCEPT !["otpm"] = TryConsume("otpm", @, t, estOut)]
    IN IF ~CanConsume("rpm", bks["rpm"], t, 1)
       THEN [buckets |-> b1, at |-> "wait_rpm",
             wait |-> GetWaitTime("rpm", b1["rpm"], t, 1)]
       ELSE IF ~CanConsume("itpm", b1["itpm"], t, estIn)
       THEN LET r == RollbackInputFailure(b2, t)
            IN [buckets |-> r, at |-> "wait_itpm",
                wait |-> GetWaitTime("itpm", r["itpm"], t, estIn)]
       ELSE IF estOut > 0 /\ ~CanConsume("otpm", b2["otpm"], t, estOut)
       THEN LET r == RollbackOutputFailure(b3, t, estIn)
            IN [buckets |-> r, at |-> "wait_otpm",
                wait |-> GetWaitTime("otpm", r["otpm"], t, estOut)]
       ELSE [buckets |-> IF estOut > 0 THEN b3 ELSE b2, at |-> "granted", wait |-> 0]

Waiting(c) == rpc[c] \in {"wait_rpm", "wait_itpm", "wait_otpm"}

InitRate ==
    /\ now = 0
    /\ bucket = [b \in Dimensions |-> NewBucket(b, 0)]
    /\ rpc = [c \in Callers |-> "idle"]
    /\ est = [c \in Callers |-> [input |-> 0, output |-> 0]]
    /\ wakeAt = [c \in Callers |-> 0]
    /\ granted = 0

\* a task attempt calls acquirePermit(estimatedInputTokens, estimatedOutputTokens)
Call(c, estIn, estOut) ==
    /\ rpc[c] = "idle"
    /\ rpc' = [rpc EXCEPT ![c] = "trying"]
    /\ est' = [est EXCEPT ![c] = [input |-> estIn, output |-> estOut]]
    /\ UNCHANGED <<now, bucket, wakeAt, granted>>
    /\ UNCHANGED <<orchVars, ckptVars, apiVars, lockVars>>

\* manager:54-87: one pass of the loop, entered on the call or when the sleep ends
TryAcquire(c) ==
    /\ \/ rpc[c] = "trying"
       \/ Waiting(c) /\ now >= wakeAt[c]
    /\ LET a == PermitAttempt(bucket, now, est[c].input, est[c].output)
       IN /\ bucket' = a.buckets
          /\ rpc' = [rpc EXCEPT ![c] = a.at]
          /\ wakeAt' = [wakeAt EXCEPT ![c] = now + a.wait]
          /\ granted' = IF a.at = "granted" THEN granted + 1 ELSE granted
    /\ UNCHANGED <<now, est>>
    /\ UNCHANGED <<orchVars, ckptVars, apiVars, lockVars>>

\* the clock advances
Tick ==
    /\ now < MaxTime
    /\ now' = now + 1
    /\ UNCHANGED <<bucket, rpc, est, wakeAt, granted>>
    /\ UNCHANGED <<orchVars, ckptVars, apiVars, lockVars>>

NextRate ==
    \/ \E c \in Callers, i \in 1..MaxEstimate, o \in 0..MaxEstimate : Call(c, i, o)
    \/ \E c \in Callers : TryAcquire(c)
    \/ Tick

\* the token level a bucket shows at time t
Level(b, bk, t) == Refill(b, bk, t).tokens

\* C2: a pass of acquirePermit that ends in a sleep leaves every bucket at the
\* level it had before the pass: the caller sleeps holding no request, input or
\* output token
C2_RollbackBeforeSleep ==
    [][\A c \in Callers :
          (rpc'[c] # rpc[c] /\ rpc'[c] \in {"wait_rpm", "wait_itpm", "wait_otpm"}) =>
             \A b \in Dimensions :
                Level(b, bucket'[b], now) = Level(b, bucket[b], now)]_vars

\* one caller has its permit, another sleeps after the output check failed
C2_Witness ==
    /\ \E c \in Callers : rpc[c] = "wait_otpm" /\ wakeAt[c] > now
    /\ \E c \in Callers : rpc[c] = "granted"

\* what a permit for estimates e takes from bucket b; the output bucket is
\* asked only when the output estimate is positive
Taken(b, e) ==
    CASE b = "rpm"  -> 1
      [] b = "itpm" -> e.input
      [] b = "otpm" -> e.output

RECURSIVE TotalTaken(_, _)
TotalTaken(b, cs) ==
    IF cs = {} THEN 0
    ELSE LET c == CHOOSE x \in cs : TRUE
         IN Taken(b, est[c]) + TotalTaken(b, cs \ {c})

Granted == {c \in Callers : rpc[c] = "granted"}

\* C33: under any interleaving of the callers' passes, a pass that grants takes
\* exactly 1 request token, the input estimate and the output estimate from
\* levels that hold at least that much, any other step of a caller leaves the
\* levels alone, and as long as no time has passed each level is the capacity
\* minus what the granted permits took
C33_ExactAccounting ==
    /\ [](now = 0 =>
            \A b \in Dimensions :
               bucket[b].tokens = Units(Capacity(b)) - Units(TotalTaken(b, Granted)))
    /\ [][now' = now =>
            \A b \in Dimensions :
               LET before == Level(b, bucket[b], now)
                   after  == Level(b, bucket'[b], now)
               IN IF \E c \in Callers : rpc[c] # "granted" /\ rpc'[c] = "granted"
                  THEN \E c \in Callers :
                          /\ rpc[c] # "granted" /\ rpc'[c] = "granted"
                          /\ before >= Units(Taken(b, est[c]))
                          /\ after = before - Units(Taken(b, est[c]))
                  ELSE after = before]_vars

\* two permits granted before any refill, one with an output estimate, while
\* the input bucket has nothing left
C33_Witness ==
    /\ now = 0
    /\ Cardinality(Granted) = 2
    /\ \E c \in Granted : est[c].output > 0
    /\ bucket["itpm"].tokens = 0

-----------------------------------------------------------------------------
(* acquirePermit as time goes on without end.  The clock reading is kept at 0   *)
(* and time is the age of each bucket's last refill and what is left of each    *)
(* caller's sleep; an age beyond one minute refills a bucket no more than one   *)
(* minute does, so it is kept at one minute.                                    *)

\* one tick passes
Elapse ==
    /\ bucket' = [b \in Dimensions |->
                    [bucket[b] EXCEPT !.lastRefill = Max(@ - 1, 0 - TicksPerMinute)]]
    /\ wakeAt' = [c \in Callers |-> Max(0, wakeAt[c] - 1)]
    /\ UNCHANGED <<now, rpc, est, granted>>
    /\ UNCHANGED <<orchVars, ckptVars, apiVars, lockVars>>

\* main.ts:147-148: acquirePermit(task.estimatedTokens || 2000), the estimate
\* being what the task source gave, within the input capacity or beyond it
NextAdmit ==
    \/ \E c \in Callers, i \in 1..(ItpmCapacity + 1) : Call(c, i, 0)
    \/ \E c \in Callers : TryAcquire(c)
    \/ Elapse

\* time passes, and a caller whose sleep is over runs its next pass
FairAdmit ==
    /\ WF_vars(Elapse)
    /\ \A c \in Callers : WF_vars(TryAcquire(c))

\* C34: whatever the estimate, a call of acquirePermit returns in the end
C34_PermitReturns ==
    \A c \in Callers : (rpc[c] = "trying") ~> (rpc[c] = "granted")

\* the same for the estimates that the input bucket can hold
PermitReturnsWithinCapacity ==
    \A c \in Callers :
       (rpc[c] = "trying" /\ est[c].input <= ItpmCapacity) ~> (rpc[c] = "granted")

-----------------------------------------------------------------------------
(* CheckpointManager (state/checkpoint): conversion and JSON *)

CkptTaskIds == 1..MaxCkptTasks

EmptyRecord == [x \in {} |-> x]

\* JavaScript values that are or stand where a number does
Num(n) == <<"number", n>>
NaN == <<"NaN", 0>>
Undefined == <<"undefined", 0>>
Null == <<"null", 0>>

\* executor.ts:245-256: a 429 error; retryAfter is undefined without the header,
\* parseInt(header) otherwise, which is NaN for a header that is not a number
RateLimited(r) ==
    [code |-> "RATE_LIMITED", retryable |-> TRUE,
     context |-> [status |-> Num(429), retryAfter |-> r]]

\* main.ts:193-204: the error after the retries are exhausted; it has no context
ExecutionError == [code |-> "EXECUTION_ERROR", retryable |-> FALSE]

RetryAfterValues == {Undefined, NaN, Num(MaxCounter)}

Errors == {RateLimited(r) : r \in RetryAfterValues} \cup {ExecutionError}

\* the execution states handed to saveCheckpoint: each id is in none of the sets,
\* completed, in progress, or failed with one of the errors
TaskPlaces ==
    {[kind |-> k] : k \in {"none", "completed", "inProgress"}}
        \cup {[kind |-> "failed", error |-> e] : e \in Errors}

StateFrom(place, tokens, time) ==
    [completedTasks  |-> {t \in CkptTaskIds : place[t].kind = "completed"},
     failedTasks     |-> [t \in {u \in CkptTaskIds : place[u].kind = "failed"}
                             |-> place[t].error],
     inProgressTasks |-> {t \in CkptTaskIds : place[t].kind = "inProgress"},
     totalTokensUsed |-> Num(tokens),
     executionTimeMs |-> Num(time)]

CkptStates ==
    {StateFrom(place, tokens, time) :
        place \in [CkptTaskIds -> TaskPlaces],
        tokens \in 0..MaxCounter, time \in 0..MaxCounter}

InitialState == StateFrom([t \in CkptTaskIds |-> [kind |-> "none"]], 0, 0)

\* stateToData: sets and the map become arrays
StateToData(st) ==
    [completedTasks  |-> SetToSeq(st.completedTasks),
     failedTasks     |-> LET ids == SetToSeq(DOMAIN st.failedTasks)
                         IN [i \in DOMAIN ids |->
                               [taskId |-> ids[i], error |-> st.failedTasks[ids[i]]]],
     inProgressTasks |-> SetToSeq(st.inProgressTasks),
     totalTokensUsed |-> st.totalTokensUsed,
     executionTimeMs |-> st.executionTimeMs]

\* JSON.stringify of a number: NaN is written as null
JsonNumber(v) == IF v = NaN THEN Null ELSE v

\* JSON.stringify of an object: a property whose value is undefined is left out
JsonContext(ctx) ==
    [status |-> JsonNumber(ctx.status)] @@
    (IF ctx.retryAfter = Undefined THEN EmptyRecord
     ELSE [retryAfter |-> JsonNumber(ctx.retryAfter)])

JsonError(e) ==
    [code |-> e.code, retryable |-> e.retryable] @@
    (IF "context" \in DOMAIN e THEN [context |-> JsonContext(e.context)]
     ELSE EmptyRecord)

\* JSON.stringify(data, null, 2): the text, as the tree it denotes
JsonStringify(data) ==
    [completedTasks  |-> data.completedTasks,
     failedTasks     |-> [i \in DOMAIN data.failedTasks |->
                            [taskId |-> data.failedTasks[i].taskId,
                             error  |-> JsonError(data.failedTasks[i].error)]],
     inProgressTasks |-> data.inProgressTasks,
     totalTokensUsed |-> JsonNumber(data.totalTokensUsed),
     executionTimeMs |-> JsonNumber(data.executionTimeMs)]

NoFile == [exists |-> FALSE]

FileOf(text, n) == [exists |-> TRUE, text |-> text, written |-> n]

\* JSON.parse(readFileSync(path)): a text that was not written to its end does not
\* parse
JsonParse(f) ==
    IF f.written = FileChunks THEN [ok |-> TRUE, value |-> f.text] ELSE [ok |-> FALSE]

RECURSIVE EntriesToMap(_, _)
EntriesToMap(m, entries) ==
    IF entries = <<>> THEN m
    ELSE LET e == Head(entries)
         IN EntriesToMap((e.taskId :> e.error) @@ [k \in DOMAIN m \ {e.taskId} |-> m[k]],
                         Tail(entries))

\* dataToState: arrays become sets and a map again
DataToState(data) ==
    [completedTasks  |-> Range(data.completedTasks),
     failedTasks     |-> EntriesToMap(EmptyRecord, data.failedTasks),
     inProgressTasks |-> Range(data.inProgressTasks),
     totalTokensUsed |-> data.totalTokensUsed,
     executionTimeMs |-> data.executionTimeMs]

NotLoaded == [is |-> "none"]

NullState == [is |-> "null"]

\* loadCheckpoint: null for a missing file or a text that does not parse
LoadCheckpoint(f) ==
    IF ~f.exists THEN NullState
    ELSE IF ~JsonParse(f).ok THEN NullState
    ELSE [is |-> "state", state |-> DataToState(JsonParse(f).value)]

\* reading a property of an object: undefined when the object has no such property
Property(obj, k) == IF k \in DOMAIN obj THEN obj[k] ELSE Undefined

SameError(a, b) ==
    /\ a.code = b.code
    /\ a.retryable = b.retryable
    /\ ("context" \in DOMAIN a) = ("context" \in DOMAIN b)
    /\ "context" \in DOMAIN a =>
          /\ Property(a.context, "status") = Property(b.context, "status")
          /\ Property(a.context, "retryAfter") = Property(b.context, "retryAfter")

SameState(a, b) ==
    /\ a.completedTasks = b.completedTasks
    /\ a.inProgressTasks = b.inProgressTasks
    /\ DOMAIN a.failedTasks = DOMAIN b.failedTasks
    /\ \A t \in DOMAIN a.failedTasks : SameError(a.failedTasks[t], b.failedTasks[t])
    /\ a.totalTokensUsed = b.totalTokensUsed
    /\ a.executionTimeMs = b.executionTimeMs

-----------------------------------------------------------------------------
(* CheckpointManager.saveCheckpoint / loadCheckpoint, step by step *)

\* the two saveCheckpoint bodies of the repository: "direct" writes the text to the
\* final path, "atomic" writes it to a temporary path and renames it
Implementations == {"direct", "atomic"}

OrchRateIdle == UNCHANGED <<orchVars, rateVars, apiVars, lockVars>>

\* the checkpoint directory of a new manager: empty, or holding the complete record an
\* earlier save left under the same id
InitCkpt ==
    /\ impl \in Implementations
    /\ memState = InitialState
    /\ finalFile \in {NoFile, FileOf(JsonStringify(StateToData(InitialState)), FileChunks)}
    /\ tempFile = NoFile
    /\ prevFile = finalFile
    /\ cpc = "idle"
    /\ loaded = NotLoaded

\* saveCheckpoint up to the moment writeFileSync has opened (and truncated) its target
SaveOpen(st) ==
    /\ cpc = "idle"
    /\ memState' = st
    /\ prevFile' = finalFile
    /\ LET text == JsonStringify(StateToData(st))
       IN IF impl = "direct"
          THEN finalFile' = FileOf(text, 0) /\ UNCHANGED tempFile
          ELSE tempFile' = FileOf(text, 0) /\ UNCHANGED finalFile
    /\ cpc' = "writing"
    /\ UNCHANGED <<impl, loaded>>
    /\ OrchRateIdle

\* one write call of writeFileSync; after the last one the direct body returns and
\* the atomic body goes on to renameSync
WriteChunk ==
    /\ cpc = "writing"
    /\ IF impl = "direct"
       THEN /\ finalFile' = [finalFile EXCEPT !.written = @ + 1]
            /\ cpc' = IF finalFile.written + 1 = FileChunks THEN "saved" ELSE "writing"
            /\ UNCHANGED tempFile
       ELSE /\ tempFile' = [tempFile EXCEPT !.written = @ + 1]
            /\ cpc' = IF tempFile.written + 1 = FileChunks THEN "rename" ELSE "writing"
            /\ UNCHANGED finalFile
    /\ UNCHANGED <<impl, memState, prevFile, loaded>>
    /\ OrchRateIdle

\* renameSync(tempPath, finalPath), then return
Rename ==
    /\ cpc = "rename"
    /\ finalFile' = tempFile
    /\ tempFile' = NoFile
    /\ cpc' = "saved"
    /\ UNCHANGED <<impl, memState, prevFile, loaded>>
    /\ OrchRateIdle

\* writeFileSync or renameSync throws: the catch block (the atomic one unlinks the
\* temporary file) and the rethrow
WriteFails ==
    /\ cpc \in {"writing", "rename"}
    /\ tempFile' = NoFile
    /\ cpc' = "threw"
    /\ UNCHANGED <<impl, memState, finalFile, prevFile, loaded>>
    /\ OrchRateIdle

\* the process dies inside saveCheckpoint
Crash ==
    /\ cpc \in {"writing", "rename"}
    /\ cpc' = "crashed"
    /\ UNCHANGED <<impl, memState, finalFile, tempFile, prevFile, loaded>>
    /\ OrchRateIdle

\* loadCheckpoint(id), by this process or by the next one
Load ==
    /\ cpc \in {"idle", "saved", "threw", "crashed"}
    /\ loaded = NotLoaded
    /\ loaded' = LoadCheckpoint(finalFile)
    /\ UNCHANGED <<impl, memState, finalFile, tempFile, prevFile, cpc>>
    /\ OrchRateIdle

NextCkpt ==
    \/ \E st \in CkptStates : SaveOpen(st)
    \/ WriteChunk
    \/ Rename
    \/ WriteFails
    \/ Crash
    \/ Load

\* C3: when the process dies inside saveCheckpoint, the final path holds what it held
\* before the save began, the complete previous record or no file, and never a
\* partially written record.
C3_AtomicSave == cpc = "crashed" => finalFile = prevFile

\* C27: when writeFileSync or renameSync fails, saveCheckpoint throws to its
\* caller, the final path holds what it held before the save began and no
\* temporary file is left
C27_FailedSaveLeavesRecord ==
    cpc = "threw" => (finalFile = prevFile /\ tempFile = NoFile)

\* C4: a state that was saved and then loaded comes back with the same completed set,
\* failed map (ids and errors), in-progress set, totalTokensUsed and executionTimeMs.
C4_RoundTrip ==
    (cpc = "saved" /\ loaded # NotLoaded) =>
        (loaded.is = "state" /\ SameState(loaded.state, memState))

-----------------------------------------------------------------------------
(* TaskGraph through its public methods: status marking *)

NoOutput == [valid |-> TRUE, cycles |-> <<>>, orphaned |-> {}, list |-> <<>>]

IdleGraph ==
    /\ tg = EmptyGraph
    /\ tgData = <<>>
    /\ gop = "idle"
    /\ gout = NoOutput

OtherIdle == UNCHANGED <<orchVars, rateVars, ckptVars, bucketVars, storeVars, usageVars,
                         lockVars>>

\* a graph built by addTask from an acyclic task set, every node pending
InitMark ==
    /\ tgData \in TaskConfigs(MaxTasks)
    /\ tg = BuildGraph(EmptyGraph, tgData, AllTasks(tgData))
    /\ gop = "built"
    /\ gout = NoOutput

\* markCompleted / markFailed / markExecuting(taskId)
MarkTask(id, st) ==
    /\ gop # "idle"
    /\ tg' = SetStatus(tg, id, st)
    /\ gop' = "mark"
    /\ UNCHANGED <<tgData, gout>>
    /\ OtherIdle

\* markBlockedTasks(failedTasks)
BlockTasks(F) ==
    /\ gop # "idle"
    /\ tg' = MarkBlockedTasks(tg, SetToSeq(F))
    /\ gop' = "markBlockedTasks"
    /\ UNCHANGED <<tgData, gout>>
    /\ OtherIdle

NextMark ==
    \/ \E id \in TaskIds, st \in {"completed", "failed", "executing"} : MarkTask(id, st)
    \/ \E F \in SUBSET TaskIds : BlockTasks(F)

\* the pending nodes reachable from F along dependent edges through pending nodes
RECURSIVE PendingReach(_, _, _)
PendingReach(g, F, R) ==
    LET more == {d \in DOMAIN g.node :
                    /\ d \notin R
                    /\ g.node[d].status = "pending"
                    /\ \E x \in (F \cup R) \cap DOMAIN g.node :
                          d \in g.node[x].dependents}
    IN IF more = {} THEN R ELSE PendingReach(g, F, R \cup more)

\* C11: markBlockedTasks(F) turns exactly the pending nodes reachable from F along
\* dependent edges through pending nodes into blocked nodes and changes nothing
\* else: completed, failed and executing nodes keep their status.
C11_BlocksTransitively ==
    gop # "idle" =>
       \A F \in SUBSET TaskIds :
          LET after == MarkBlockedTasks(tg, SetToSeq(F))
              reach == PendingReach(tg, F, {})
          IN /\ after.order = tg.order
             /\ DOMAIN after.node = DOMAIN tg.node
             /\ \A n \in DOMAIN tg.node :
                   /\ after.node[n].dependencies = tg.node[n].dependencies
                   /\ after.node[n].dependents = tg.node[n].dependents
                   /\ after.node[n].status =
                         IF n \in reach THEN "blocked" ELSE tg.node[n].status

\* A -> B -> C with A failed: the call has blocked B and C
C11_Witness ==
    /\ gop = "markBlockedTasks"
    /\ DOMAIN tg.node = {1, 2, 3}
    /\ tg.node[2].dependencies = {1}
    /\ tg.node[3].dependencies = {2}
    /\ tg.node[1].status = "failed"
    /\ tg.node[2].status = "blocked"
    /\ tg.node[3].status = "blocked"

-----------------------------------------------------------------------------
(* TaskGraph through its public methods: queries on a newly built graph *)

\* the inner loop of topologicalSort over node.dependents
RECURSIVE ReleaseDependents(_, _, _)
ReleaseDependents(dependents, inDegree, queue) ==
    IF dependents = <<>> THEN [inDegree |-> inDegree, queue |-> queue]
    ELSE LET d == Head(dependents)
             newDegree == (IF d \in DOMAIN inDegree THEN inDegree[d] ELSE 0) - 1
         IN ReleaseDependents(Tail(dependents),
                              (d :> newDegree) @@ inDegree,
                              IF newDegree = 0 THEN Append(queue, d) ELSE queue)

\* while (queue.length > 0)
RECURSIVE KahnLoop(_, _, _, _)
KahnLoop(g, inDegree, queue, sorted) ==
    IF queue = <<>> THEN sorted
    ELSE LET nodeId == Head(queue)
             r == ReleaseDependents(SetToSeq(g.node[nodeId].dependents),
                                    inDegree, Tail(queue))
         IN KahnLoop(g, r.inDegree, r.queue, Append(sorted, nodeId))

\* a variant that returns the node ids in insertion order
KeysInInsertionOrder(g) == g.order

TopologicalSort(g) ==
    KahnLoop(g,
             [n \in DOMAIN g.node |-> Cardinality(g.node[n].dependencies)],
             SelectSeq(g.order, LAMBDA n : g.node[n].dependencies = {}),
             <<>>)

\* a task set with the given dependencies
TasksWith(D) == [t \in DOMAIN D |-> [dependencies |-> D[t], priority |-> PriorityOf(t)]]

\* a graph built by addTask from task sets with any dependencies: forward
\* references, self-dependencies, cycles and ids that are never fetched
InitGraph ==
    /\ \E S \in SUBSET TaskIds : \E D \in [S -> SUBSET TaskIds] : tgData = TasksWith(D)
    /\ tg = BuildGraph(EmptyGraph, tgData, AllTasks(tgData))
    /\ gop = "built"
    /\ gout = NoOutput

Validate ==
    /\ gop # "idle"
    /\ gout' = ValidateAcyclic(tg, tgData)
    /\ gop' = "validateAcyclic"
    /\ UNCHANGED <<tg, tgData>>
    /\ OtherIdle

Sort ==
    /\ gop # "idle"
    /\ gout' = [NoOutput EXCEPT !.list = TopologicalSort(tg)]
    /\ gop' = "topologicalSort"
    /\ UNCHANGED <<tg, tgData>>
    /\ OtherIdle

NextGraph ==
    \/ Validate
    \/ Sort

\* forward and reverse edges between the nodes n and d mirror each other
Mirrored(g, n, d) ==
    (HasNode(g, n) /\ d \in g.node[n].dependencies)
        <=> (HasNode(g, d) /\ n \in g.node[d].dependents)

\* C39: in a graph built by addTask, d is in the dependency set of node n
\* exactly when a node for d exists and n is in its dependent set, for all ids
\* n and d, a task that lists itself as a dependency included
C39_EdgesMirror == \A n, d \in TaskIds : Mirrored(tg, n, d)

\* the same for two different ids
EdgesMirrorBetweenDistinct ==
    \A n, d \in TaskIds : n # d => Mirrored(tg, n, d)

\* the three tasks depend on one another in a ring
ThreeCycle ==
    /\ DOMAIN tgData = {1, 2, 3}
    /\ \/ /\ tgData[1].dependencies = {2}
          /\ tgData[2].dependencies = {3}
          /\ tgData[3].dependencies = {1}
       \/ /\ tgData[1].dependencies = {3}
          /\ tgData[3].dependencies = {2}
          /\ tgData[2].dependencies = {1}

\* C12: validateAcyclic says valid exactly when the dependency graph has no directed
\* cycle, whatever dependencies are orphaned; on a ring of three tasks it reports a
\* cycle that contains all three.
C12_ValidIffAcyclic ==
    gop = "validateAcyclic" =>
       /\ gout.valid <=> ~HasCycle(tg)
       /\ ThreeCycle =>
             \E i \in DOMAIN gout.cycles : Range(gout.cycles[i]) = {1, 2, 3}

C12_Witness ==
    /\ gop = "validateAcyclic"
    /\ ThreeCycle
    /\ ~gout.valid

\* c is a cycle of the graph: it ends where it starts, and each element depends
\* directly on the next
GenuineCycle(g, c) ==
    /\ Len(c) >= 2
    /\ c[1] = c[Len(c)]
    /\ \A i \in 1..(Len(c) - 1) :
          c[i] \in DOMAIN g.node /\ c[i + 1] \in g.node[c[i]].dependencies

\* C32: every cycle that validateAcyclic reports is a cycle of the graph
C32_ReportedCyclesGenuine ==
    gop = "validateAcyclic" =>
       \A i \in DOMAIN gout.cycles : GenuineCycle(tg, gout.cycles[i])

Position(list, x) == IndexOf(list, x)

\* C13: on an acyclic graph topologicalSort returns every node exactly once, each
\* dependency before every node that depends on it.
C13_SortRespectsEdges ==
    (gop = "topologicalSort" /\ ~HasCycle(tg)) =>
       /\ Len(gout.list) = Cardinality(DOMAIN tg.node)
       /\ Range(gout.list) = DOMAIN tg.node
       /\ \A n \in DOMAIN tg.node :
             \A d \in tg.node[n].dependencies :
                Position(gout.list, d) < Position(gout.list, n)

\* a chain whose dependencies have the higher ids, so that the sorted order is not
\* the insertion order
C13_Witness ==
    /\ gop = "topologicalSort"
    /\ DOMAIN tgData = {1, 2, 3}
    /\ tgData[1].dependencies = {2}
    /\ tgData[2].dependencies = {3}
    /\ tgData[3].dependencies = {}
    /\ gout.list = <<3, 2, 1>>

-----------------------------------------------------------------------------
(* JavaScript numbers.  A number is a binary floating-point value, and every     *)
(* arithmetic operation rounds its exact result to the nearest representable     *)
(* value, ties to the even significand.  The format here has MantissaBits        *)
(* significand bits in place of 53 and subnormal values spaced 1/Scale apart; a  *)
(* value is held as its count of 1/Scale units.  The minute of token-bucket.ts   *)
(* (60000 ms) is MsPerMinute clock units.                                        *)

Scale == 2 ^ (MantissaBits + 4)

\* the spacing of the representable values around num/den units
RECURSIVE UlpOf(_, _, _)
UlpOf(num, den, u) ==
    IF num < den * u * (2 ^ MantissaBits) THEN u ELSE UlpOf(num, den, 2 * u)

\* num/den units, rounded to nearest, ties to even
Round(num, den) ==
    LET u == UlpOf(num, den, 1)
        q == num \div (den * u)
        r == num % (den * u)
    IN IF 2 * r > den * u \/ (2 * r = den * u /\ q % 2 = 1)
       THEN (q + 1) * u
       ELSE q * u

FromInt(n) == n * Scale
FAdd(x, y) == Round(x + y, 1)
FSub(x, y) == Round(x - y, 1)
FMul(x, y) == Round(x * y, Scale)
FDiv(x, y) == Round(x * Scale, y)
Ceil(x) == (x + Scale - 1) \div Scale

-----------------------------------------------------------------------------
(* TokenBucket (rate-limit/token-bucket.ts) through its public methods, in the   *)
(* arithmetic of JavaScript numbers                                              *)

\* constructor(capacity, refillRatePerMinute)
Constructor(capacity, refillRatePerMinute, t) ==
    [capacity   |-> capacity,
     tokens     |-> FromInt(capacity),
     refillRate |-> FDiv(FromInt(refillRatePerMinute), FromInt(MsPerMinute)),
     lastRefill |-> t]

\* refill()
BucketRefill(b, t) ==
    LET elapsed     == t - b.lastRefill
        tokensToAdd == FMul(FromInt(elapsed), b.refillRate)
    IN [b EXCEPT !.tokens = Min(FromInt(b.capacity), FAdd(b.tokens, tokensToAdd)),
                 !.lastRefill = t]

\* a tryConsume that does not refill: [bucket, returned]
TryConsumeWithoutRefill(b, t, count) ==
    IF b.tokens >= FromInt(count)
    THEN [bucket |-> [b EXCEPT !.tokens = FSub(@, FromInt(count))], returned |-> TRUE]
    ELSE [bucket |-> b, returned |-> FALSE]

\* tryConsume(count): [bucket, returned]
BucketTryConsume(b, t, count) ==
    LET r == BucketRefill(b, t)
    IN IF r.tokens >= FromInt(count)
       THEN [bucket |-> [r EXCEPT !.tokens = FSub(@, FromInt(count))], returned |-> TRUE]
       ELSE [bucket |-> r, returned |-> FALSE]

\* getWaitTime(count): [bucket, returned]
BucketGetWaitTime(b, t, count) ==
    LET r       == BucketRefill(b, t)
        deficit == FSub(FromInt(count), r.tokens)
    IN IF r.tokens >= FromInt(count)
       THEN [bucket |-> r, returned |-> 0]
       ELSE [bucket |-> r, returned |-> Ceil(FDiv(deficit, r.refillRate))]

\* getAvailable()
BucketGetAvailable(b, t) == BucketRefill(b, t).tokens

\* setTokens(count)
BucketSetTokens(b, t, count) ==
    [b EXCEPT !.tokens = Min(FromInt(b.capacity), Max(0, FromInt(count))),
              !.lastRefill = t]

\* reset()
BucketReset(b, t) == [b EXCEPT !.tokens = FromInt(b.capacity), !.lastRefill = t]

Counts == 0..(MaxCapacity + 1)

NoCall == [op |-> "none", count |-> 0, ok |-> FALSE, wait |-> 0]

\* nothing seen: the bucket has not been emptied and no wait time was reported
NoHistory == [emptiedAt |-> -1, due |-> -1]

IdleBucket ==
    /\ tb = [capacity |-> 0, tokens |-> 0, refillRate |-> 0, lastRefill |-> 0]
    /\ tbNow = 0
    /\ call = [NoCall EXCEPT !.op = "idle"]
    /\ hist = NoHistory

GraphIdle == UNCHANGED <<orchVars, rateVars, ckptVars, graphVars, storeVars, usageVars,
                         lockVars>>

\* new TokenBucket(capacity, capacity), as RateLimitManager constructs its buckets
InitBucket ==
    /\ \E capacity \in 1..MaxCapacity : tb = Constructor(capacity, capacity, 0)
    /\ tbNow = 0
    /\ call = NoCall
    /\ hist = NoHistory

\* time passes
Advance ==
    /\ call.op # "idle"
    /\ tbNow < MaxClock
    /\ tbNow' = tbNow + 1
    /\ UNCHANGED <<tb, call, hist>>
    /\ GraphIdle

\* tryConsume(count); a consumption of the full capacity is remembered, and a
\* consumption ends what the wait times reported before it promise
TryConsumeCall(count) ==
    /\ call.op # "idle"
    /\ LET res  == BucketTryConsume(tb, tbNow, count)
           full == BucketGetAvailable(tb, tbNow) = FromInt(tb.capacity)
       IN /\ tb' = res.bucket
          /\ call' = [op |-> "tryConsume", count |-> count, ok |-> res.returned,
                      wait |-> 0]
          /\ hist' = IF res.returned /\ count > 0
                     THEN [emptiedAt |-> IF full /\ count = tb.capacity
                                         THEN tbNow ELSE hist.emptiedAt,
                           due       |-> -1]
                     ELSE hist
    /\ UNCHANGED tbNow
    /\ GraphIdle

\* getWaitTime(count); the time at which the reported wait is over is remembered
GetWaitTimeCall(count) ==
    /\ call.op # "idle"
    /\ LET res == BucketGetWaitTime(tb, tbNow, count)
           end == tbNow + res.returned
       IN /\ tb' = res.bucket
          /\ call' = [op |-> "getWaitTime", count |-> count, ok |-> FALSE,
                      wait |-> res.returned]
          /\ hist' = [hist EXCEPT
                        !.due = IF count # 1 THEN @
                                ELSE IF @ < 0 THEN end ELSE Min(@, end)]
    /\ UNCHANGED tbNow
    /\ GraphIdle

\* setTokens(count)
SetTokensCall(count) ==
    /\ call.op # "idle"
    /\ tb' = BucketSetTokens(tb, tbNow, count)
    /\ call' = [op |-> "setTokens", count |-> count, ok |-> FALSE, wait |-> 0]
    /\ hist' = NoHistory
    /\ UNCHANGED tbNow
    /\ GraphIdle

\* reset()
ResetCall ==
    /\ call.op # "idle"
    /\ tb' = BucketReset(tb, tbNow)
    /\ call' = [op |-> "reset", count |-> 0, ok |-> FALSE, wait |-> 0]
    /\ hist' = NoHistory
    /\ UNCHANGED tbNow
    /\ GraphIdle

NextBucket ==
    \/ Advance
    \/ \E count \in Counts : TryConsumeCall(count)
    \/ \E count \in Counts : GetWaitTimeCall(count)
    \/ \E count \in Counts : SetTokensCall(count)
    \/ ResetCall

\* C15: tryConsume(n) refills first; if the refilled level is at least n it
\* returns true and the level afterwards is the refilled level minus exactly n,
\* otherwise it returns false and the level afterwards is the refilled level
C15_TryConsume ==
    [][\A n \in Counts :
          TryConsumeCall(n) =>
              LET level == BucketGetAvailable(tb, tbNow)
              IN /\ call'.ok = (level >= n * Scale)
                 /\ tb'.tokens = IF level >= n * Scale THEN level - n * Scale
                                                      ELSE level
                 /\ BucketGetAvailable(tb', tbNow') = tb'.tokens
      ]_vars

\* a consumption that succeeded on a level that is not a whole number of tokens
C15_Witness ==
    /\ call.op = "tryConsume"
    /\ call.ok
    /\ call.count = 1
    /\ tb.tokens % Scale # 0
    /\ tbNow > 0

\* what getWaitTime(count) reports at the time of the bucket's last refill
WaitAt(b, count) == BucketGetWaitTime(b, b.lastRefill, count).returned

\* C16: after the full capacity was consumed, tryConsume(1) returns false while
\* the time elapsed is less than the time that refills one token, and returns
\* true once the time reported by getWaitTime(1) has passed; and a call that
\* consumes nothing leaves no getWaitTime(n) higher than it was at the call before
C16_WaitTimeHonoured ==
    [][/\ TryConsumeCall(1) =>
            /\ (/\ hist.emptiedAt >= 0
                /\ (tbNow - hist.emptiedAt) * tb.capacity < MsPerMinute) => ~call'.ok
            /\ (hist.due >= 0 /\ tbNow >= hist.due) => call'.ok
       /\ (\E m \in Counts : GetWaitTimeCall(m) \/ (TryConsumeCall(m) /\ ~call'.ok)) =>
            \A n \in Counts : WaitAt(tb', n) <= WaitAt(tb, n)
      ]_vars

-----------------------------------------------------------------------------
(* RecoveryManager (state/recovery.ts): the execution lock.  The file system     *)
(* calls on the lock path are taken to succeed.                                   *)

Pids == 1..MaxProcs

\* checkpoint ids; NoId is an absent checkpointId
CheckpointIds == 0..MaxWork
NoId == -1

NoLock == [exists |-> FALSE, parses |-> FALSE, pid |-> 0, checkpointId |-> NoId]

\* JSON.stringify(lockData): { pid, startTime, checkpointId }
LockData(pid, checkpointId) ==
    [exists |-> TRUE, parses |-> TRUE, pid |-> pid, checkpointId |-> checkpointId]

\* a lock file whose content is not the JSON of a lock record
CorruptLock == [exists |-> TRUE, parses |-> FALSE, pid |-> 0, checkpointId |-> NoId]

\* every content of the lock path: none, a record of any holder (pid 0 is a
\* process outside the model), or content that does not parse
LockFiles ==
    {NoLock, CorruptLock}
        \cup {LockData(p, id) : p \in {0} \cup Pids, id \in {NoId} \cup CheckpointIds}

\* wasInterrupted(): existsSync(lockFilePath)
WasInterrupted(f) == f.exists

\* an acquireLock that writes the record without looking: [file, returned]
AcquireLockOverwriting(f, pid, checkpointId) ==
    [file |-> LockData(pid, checkpointId), returned |-> TRUE]

\* acquireLock(checkpointId): [file, returned]
AcquireLock(f, pid, checkpointId) ==
    IF WasInterrupted(f)
    THEN [file |-> f, returned |-> FALSE]
    ELSE [file |-> LockData(pid, checkpointId), returned |-> TRUE]

\* updateLock(checkpointId): a record that parses has its checkpointId replaced
UpdateLock(f, checkpointId) ==
    IF ~f.exists \/ ~f.parses THEN f ELSE [f EXCEPT !.checkpointId = checkpointId]

\* releaseLock(): existsSync, then unlinkSync
ReleaseLock(f) == NoLock

\* forceClearLock(): existsSync, getInterruptionInfo for the log, releaseLock
ForceClearLock(f) == IF f.exists THEN ReleaseLock(f) ELSE f

NoLockCall == [op |-> "none", pid |-> 0, id |-> NoId, ret |-> FALSE, before |-> NoLock]

NotStarted == [pc |-> "notStarted", resume |-> FALSE, work |-> 0, shutdown |-> FALSE]

NoSaved == [exists |-> FALSE, work |-> 0]

IdleProcs ==
    /\ proc = [p \in Pids |-> NotStarted]
    /\ saved = NoSaved

IdleLock ==
    /\ lockFile = NoLock
    /\ lcall = [NoLockCall EXCEPT !.op = "idle"]
    /\ IdleProcs

LockOnly == UNCHANGED <<orchVars, rateVars, ckptVars, apiVars>>

\* the methods called one at a time, on any content of the lock path
InitLock ==
    /\ lockFile \in LockFiles
    /\ lcall = NoLockCall
    /\ IdleProcs

AcquireLockCall(p, id) ==
    /\ lcall.op # "idle"
    /\ LET res == AcquireLock(lockFile, p, id)
       IN /\ lockFile' = res.file
          /\ lcall' = [op |-> "acquireLock", pid |-> p, id |-> id,
                       ret |-> res.returned, before |-> lockFile]
    /\ UNCHANGED <<proc, saved>>
    /\ LockOnly

UpdateLockCall(p, id) ==
    /\ lcall.op # "idle"
    /\ lockFile' = UpdateLock(lockFile, id)
    /\ lcall' = [op |-> "updateLock", pid |-> p, id |-> id, ret |-> FALSE,
                 before |-> lockFile]
    /\ UNCHANGED <<proc, saved>>
    /\ LockOnly

ReleaseLockCall(p) ==
    /\ lcall.op # "idle"
    /\ lockFile' = ReleaseLock(lockFile)
    /\ lcall' = [op |-> "releaseLock", pid |-> p, id |-> NoId, ret |-> FALSE,
                 before |-> lockFile]
    /\ UNCHANGED <<proc, saved>>
    /\ LockOnly

ForceClearLockCall(p) ==
    /\ lcall.op # "idle"
    /\ lockFile' = ForceClearLock(lockFile)
    /\ lcall' = [op |-> "forceClearLock", pid |-> p, id |-> NoId, ret |-> FALSE,
                 before |-> lockFile]
    /\ UNCHANGED <<proc, saved>>
    /\ LockOnly

NextLock ==
    \/ \E p \in Pids, id \in {NoId} \cup CheckpointIds : AcquireLockCall(p, id)
    \/ \E p \in Pids, id \in CheckpointIds : UpdateLockCall(p, id)
    \/ \E p \in Pids : ReleaseLockCall(p)
    \/ \E p \in Pids : ForceClearLockCall(p)

-----------------------------------------------------------------------------
(* main (main.ts:351-466) in several processes on one data directory.  Each      *)
(* step is one file system call or the code between two of them; a process       *)
(* runs main once.                                                                *)

\* positions at which the process exists
Live == {"check", "clear", "unlink", "load", "acquire", "write", "connect", "loop",
         "shutdown"}

At(p, place) == [proc EXCEPT ![p].pc = place]

NoApiCall == UNCHANGED <<lcall, orchVars, rateVars, ckptVars, apiVars>>

\* processes that have not started, an empty data directory or the checkpoint
\* of an earlier run that ended normally
InitMain ==
    /\ lockFile = NoLock
    /\ lcall = [NoLockCall EXCEPT !.op = "idle"]
    /\ proc = [p \in Pids |-> NotStarted]
    /\ saved \in {NoSaved} \cup {[exists |-> TRUE, work |-> w] : w \in 0..MaxWork}

\* the process is started, with or without the resume option
Start(p, resume) ==
    /\ proc[p].pc = "notStarted"
    /\ proc' = [proc EXCEPT ![p] = [pc |-> "check", resume |-> resume, work |-> 0,
                                    shutdown |-> FALSE]]
    /\ UNCHANGED <<lockFile, saved>>
    /\ NoApiCall

\* main.ts:356: wasInterrupted() && !cliOptions.resume
CheckInterrupted(p) ==
    /\ proc[p].pc = "check"
    /\ proc' = At(p, IF WasInterrupted(lockFile) /\ ~proc[p].resume THEN "clear"
                      ELSE "load")
    /\ UNCHANGED <<lockFile, saved>>
    /\ NoApiCall

\* main.ts:363 forceClearLock(): the existsSync of recovery.ts:165 and 107
ClearCheck(p) ==
    /\ proc[p].pc = "clear"
    /\ proc' = At(p, IF lockFile.exists THEN "unlink" ELSE "load")
    /\ UNCHANGED <<lockFile, saved>>
    /\ NoApiCall

\* recovery.ts:109 unlinkSync; a file that is gone by now throws, which is caught
ClearUnlink(p) ==
    /\ proc[p].pc = "unlink"
    /\ lockFile' = ReleaseLock(lockFile)
    /\ proc' = At(p, "load")
    /\ UNCHANGED saved
    /\ NoApiCall

\* main.ts:369-387: the loaded checkpoint, or exit(1) without one, or a new state
LoadOrCreate(p) ==
    /\ proc[p].pc = "load"
    /\ proc' = IF ~proc[p].resume THEN [proc EXCEPT ![p].pc = "acquire", ![p].work = 0]
               ELSE IF saved.exists
                    THEN [proc EXCEPT ![p].pc = "acquire", ![p].work = saved.work]
                    ELSE At(p, "loadFailed")
    /\ UNCHANGED <<lockFile, saved>>
    /\ NoApiCall

\* main.ts:390 acquireLock: the wasInterrupted() of recovery.ts:55; false is exit(1)
AcquireCheck(p) ==
    /\ proc[p].pc = "acquire"
    /\ proc' = At(p, IF WasInterrupted(lockFile) THEN "lockRefused" ELSE "write")
    /\ UNCHANGED <<lockFile, saved>>
    /\ NoApiCall

\* recovery.ts:72 writeFileSync creates or replaces the file; the signal handlers
\* are registered (main.ts:396) and main awaits the connection
AcquireWrite(p) ==
    /\ proc[p].pc = "write"
    /\ lockFile' = LockData(p, IF proc[p].resume THEN saved.work ELSE NoId)
    /\ proc' = At(p, "connect")
    /\ UNCHANGED saved
    /\ NoApiCall

\* main.ts:412-417: mcpClient.connect() resolves; when it resolves to false, main
\* calls process.exit(1) inside the try block, and process.exit does not return,
\* so the finally block of main.ts:463 is never reached
Connect(p, connected) ==
    /\ proc[p].pc = "connect"
    /\ proc' = At(p, IF connected THEN "loop" ELSE "connectFailed")
    /\ UNCHANGED <<lockFile, saved>>
    /\ NoApiCall

\* main.ts:452-462: executeTaskLoop (or the connection) throws; the catch block
\* saves the state and calls process.exit(1), which ends the process before the
\* finally block.  When that saveCheckpoint throws in its turn, the exception
\* leaves the catch block through the finally block, which releases the lock,
\* and main().catch (main.ts:469) exits
FatalError(p, saveThrows) ==
    /\ proc[p].pc \in {"connect", "loop"}
    /\ IF saveThrows
       THEN /\ saved' = saved
            /\ lockFile' = ReleaseLock(lockFile)
            /\ proc' = At(p, "fatalUnsaved")
       ELSE /\ saved' = [exists |-> TRUE, work |-> proc[p].work]
            /\ lockFile' = lockFile
            /\ proc' = At(p, "fatal")
    /\ NoApiCall

\* a batch of the task loop completes work and saves the checkpoint
Work(p) ==
    /\ proc[p].pc = "loop"
    /\ proc[p].work < MaxWork
    /\ proc' = [proc EXCEPT ![p].work = @ + 1]
    /\ saved' = [exists |-> TRUE, work |-> proc[p].work + 1]
    /\ UNCHANGED lockFile
    /\ NoApiCall

\* main.ts:444-465: the loop returns, final checkpoint, releaseLock in finally
Finish(p) ==
    /\ proc[p].pc = "loop"
    /\ saved' = [exists |-> TRUE, work |-> proc[p].work]
    /\ lockFile' = ReleaseLock(lockFile)
    /\ proc' = At(p, "done")
    /\ NoApiCall

\* SIGINT / SIGTERM once the handlers are registered (recovery.ts:188-198):
\* handleSignal calls the shutdown callback of main.ts:396-399, which saves the
\* state, and awaits its promise
Interrupt(p, signal) ==
    /\ proc[p].pc \in {"connect", "loop"}
    /\ signal \in {"SIGINT", "SIGTERM"}
    /\ saved' = [exists |-> TRUE, work |-> proc[p].work]
    /\ proc' = [proc EXCEPT ![p].pc = "shutdown", ![p].shutdown = TRUE]
    /\ UNCHANGED lockFile
    /\ NoApiCall

\* recovery.ts:199-202: handleSignal resumes after the await, in its finally
\* block: releaseLock and process.exit(0)
ShutdownExit(p) ==
    /\ proc[p].pc = "shutdown"
    /\ lockFile' = ReleaseLock(lockFile)
    /\ proc' = At(p, "interrupted")
    /\ UNCHANGED saved
    /\ NoApiCall

\* recovery.ts:207-223: the handlers of uncaughtException and unhandledRejection
\* log, call releaseLock and process.exit(1)
Fault(p, event) ==
    /\ proc[p].pc \in {"connect", "loop"}
    /\ event \in {"uncaughtException", "unhandledRejection"}
    /\ lockFile' = ReleaseLock(lockFile)
    /\ proc' = At(p, "faulted")
    /\ UNCHANGED saved
    /\ NoApiCall

\* the process is killed (SIGKILL, power loss): no handler runs
Kill(p) ==
    /\ proc[p].pc \in Live
    /\ proc' = At(p, "killed")
    /\ UNCHANGED <<lockFile, saved>>
    /\ NoApiCall

NextMain ==
    \E p \in Pids :
        \/ \E resume \in BOOLEAN : Start(p, resume)
        \/ CheckInterrupted(p)
        \/ ClearCheck(p)
        \/ ClearUnlink(p)
        \/ LoadOrCreate(p)
        \/ AcquireCheck(p)
        \/ AcquireWrite(p)
        \/ \E connected \in BOOLEAN : Connect(p, connected)
        \/ \E saveThrows \in BOOLEAN : FatalError(p, saveThrows)
        \/ Work(p)
        \/ Finish(p)
        \/ \E signal \in {"SIGINT", "SIGTERM"} : Interrupt(p, signal)
        \/ ShutdownExit(p)
        \/ \E event \in {"uncaughtException", "unhandledRejection"} : Fault(p, event)
        \/ Kill(p)

InLoop(p) == proc[p].pc = "loop"

\* p runs the task loop and the lock record is the one it wrote
HoldsLock(p) == InLoop(p) /\ lockFile.exists /\ lockFile.pid = p

\* C18: at most one process runs the task loop at a time; and while a run holds
\* the lock, no step of another process changes the lock record or takes that
\* process into the task loop
C18_OneRunAtATime ==
    [][/\ Cardinality({p \in Pids : InLoop(p)'}) <= 1
       /\ \A p \in Pids :
            (HoldsLock(p) /\ proc'[p] = proc[p]) =>
                /\ lockFile' = lockFile
                /\ \A q \in Pids \ {p} : ~InLoop(q)'
      ]_vars

\* C19: a run started with the resume option is refused the lock only while
\* another process is alive; when the holder of the lock was killed it obtains
\* the lock and enters the task loop with the work of the loaded checkpoint
C19_ResumeAfterKill ==
    [][\A p \in Pids :
          /\ (AcquireCheck(p) /\ proc[p].resume /\ proc'[p].pc = "lockRefused") =>
                \E q \in Pids \ {p} : proc[q].pc \in Live
          /\ (/\ AcquireWrite(p)
              /\ proc[p].resume
              /\ \A q \in Pids \ {p} : proc[q].pc \notin Live) =>
                proc'[p].work = saved.work
      ]_vars

\* the positions of main after acquireLock returned true
HasLock == {"connect", "loop", "shutdown"}

\* the ways main ends in which the process itself decides to exit
NonCrashEnds == {"done", "interrupted", "connectFailed", "fatal", "fatalUnsaved"}

\* C21: every way a run that acquired the lock ends other than a crash (normal
\* completion, a fatal error caught by main, a failed connection, a handled
\* signal) leaves no lock record behind; and a run that finds a lock record at
\* startup finds it because another process is running or was killed
C21_LockRemovedUnlessCrashed ==
    [][\A p \in Pids :
          /\ (proc[p].pc \in HasLock /\ proc'[p].pc \in NonCrashEnds) =>
                ~lockFile'.exists
          /\ (CheckInterrupted(p) /\ WasInterrupted(lockFile)) =>
                \E q \in Pids \ {p} : proc[q].pc \in Live \cup {"killed"}
      ]_vars

\* C22: a handler registered by setupSignalHandlers releases the lock and ends
\* the process only after it has invoked the shutdown callback
C22_ShutdownCallbackFirst ==
    [][\A p \in Pids :
          (proc[p].pc \in HasLock /\ proc'[p].pc \in {"interrupted", "faulted"}) =>
              /\ proc[p].shutdown
              /\ ~lockFile'.exists
      ]_vars

-----------------------------------------------------------------------------
(* CheckpointManager over a directory of checkpoint files, and                    *)
(* RecoveryManager.recover.  A file is a complete record written by               *)
(* saveCheckpoint or a text that was not written to its end.  readdirSync returns *)
(* the names in an order of the file system's choosing.                           *)

StoreIds == 1..MaxFiles

Stamps == 1..MaxStamp

\* CheckpointData of a state saved at time ts under the id: the content grows with
\* the time of the save
DataAt(id, ts) ==
    [checkpointId    |-> id,
     timestamp       |-> ts,
     completedTasks  |-> [i \in 1..ts |-> i],
     failedTasks     |-> <<>>,
     inProgressTasks |-> <<>>,
     totalTokensUsed |-> Num(0),
     executionTimeMs |-> Num(0)]

NoRecord == [exists |-> FALSE, parses |-> FALSE, data |-> DataAt(NoId, 0)]

TruncatedRecord == [exists |-> TRUE, parses |-> FALSE, data |-> DataAt(NoId, 0)]

RecordOf(data) == [exists |-> TRUE, parses |-> TRUE, data |-> data]

\* dataToState with the id and the timestamp of the record
StateOfData(data) ==
    DataToState(data) @@ [checkpointId |-> data.checkpointId, timestamp |-> data.timestamp]

\* loadCheckpoint(checkpointId): null for a missing file and for one that does
\* not parse
StoreLoadCheckpoint(dir, id) ==
    IF id \notin DOMAIN dir \/ ~dir[id].exists THEN NullState
    ELSE IF ~dir[id].parses THEN NullState
    ELSE [is |-> "state", state |-> StateOfData(dir[id].data)]

RECURSIVE Orders(_)
Orders(names) ==
    IF names = {} THEN {<<>>}
    ELSE UNION {{<<first>> \o rest : rest \in Orders(names \ {first})} : first \in names}

\* the orders in which readdirSync can return the names of the directory
Readdir(dir) == Orders({id \in DOMAIN dir : dir[id].exists})

\* listCheckpoints: one CheckpointInfo per file that parses, in readdir order
RECURSIVE ListCheckpoints(_, _)
ListCheckpoints(dir, files) ==
    IF files = <<>> THEN <<>>
    ELSE LET f == dir[Head(files)]
         IN (IF f.parses
             THEN <<[id |-> f.data.checkpointId, timestamp |-> f.data.timestamp]>>
             ELSE <<>>) \o ListCheckpoints(dir, Tail(files))

\* a variant of the comparator that sorts by timestamp ascending
RECURSIVE InsertOldestFirst(_, _)
InsertOldestFirst(sorted, c) ==
    IF sorted = <<>> THEN <<c>>
    ELSE IF Head(sorted).timestamp <= c.timestamp
         THEN <<Head(sorted)>> \o InsertOldestFirst(Tail(sorted), c)
         ELSE <<c>> \o sorted

\* checkpoints.sort((a, b) => b.timestamp.getTime() - a.timestamp.getTime()):
\* descending, and stable, so c goes behind the entries that are not older
RECURSIVE InsertNewestFirst(_, _)
InsertNewestFirst(sorted, c) ==
    IF sorted = <<>> THEN <<c>>
    ELSE IF Head(sorted).timestamp >= c.timestamp
         THEN <<Head(sorted)>> \o InsertNewestFirst(Tail(sorted), c)
         ELSE <<c>> \o sorted

RECURSIVE SortNewestFirst(_, _)
SortNewestFirst(sorted, rest) ==
    IF rest = <<>> THEN sorted
    ELSE SortNewestFirst(InsertNewestFirst(sorted, Head(rest)), Tail(rest))

\* loadLatestCheckpoint
LoadLatestCheckpoint(dir, files) ==
    LET checkpoints == ListCheckpoints(dir, files)
    IN IF Len(checkpoints) = 0 THEN NullState
       ELSE StoreLoadCheckpoint(dir, SortNewestFirst(<<>>, checkpoints)[1].id)

\* deleteCheckpoint(checkpointId)
DeleteCheckpoint(dir, id) ==
    IF ~dir[id].exists THEN [dir |-> dir, returned |-> FALSE]
    ELSE [dir |-> [dir EXCEPT ![id] = NoRecord], returned |-> TRUE]

RECURSIVE DeleteAll(_, _, _)
DeleteAll(dir, toDelete, deleted) ==
    IF toDelete = <<>> THEN [dir |-> dir, returned |-> deleted]
    ELSE LET d == DeleteCheckpoint(dir, Head(toDelete).id)
         IN DeleteAll(d.dir, Tail(toDelete), IF d.returned THEN deleted + 1 ELSE deleted)

\* a variant of the cleanup that deletes the first keepCount entries of the
\* sorted list in place of the rest
CleanupKeepingOldest(dir, files, keepCount) ==
    LET checkpoints == ListCheckpoints(dir, files)
        sorted      == SortNewestFirst(<<>>, checkpoints)
    IN IF Len(checkpoints) <= keepCount THEN [dir |-> dir, returned |-> 0]
       ELSE DeleteAll(dir, SubSeq(sorted, 1, Len(sorted) - keepCount), 0)

\* cleanupOldCheckpoints(keepCount)
CleanupOldCheckpoints(dir, files, keepCount) ==
    LET checkpoints == ListCheckpoints(dir, files)
        sorted      == SortNewestFirst(<<>>, checkpoints)
    IN IF Len(checkpoints) <= keepCount THEN [dir |-> dir, returned |-> 0]
       ELSE DeleteAll(dir, SubSeq(sorted, keepCount + 1, Len(sorted)), 0)

\* getInterruptionInfo(): null without a lock file or when it does not parse
GetInterruptionInfo(f) ==
    IF ~WasInterrupted(f) \/ ~f.parses THEN [is |-> "null"]
    ELSE [is |-> "info", pid |-> f.pid, checkpointId |-> f.checkpointId]

\* a variant of recover that keeps the lock when no checkpoint is available
RecoverKeepingLock(f, dir, files, forceRecover) ==
    LET info   == GetInterruptionInfo(f)
        named  == IF info.is = "info" /\ info.checkpointId # NoId
                  THEN StoreLoadCheckpoint(dir, info.checkpointId)
                  ELSE NullState
        latest == LoadLatestCheckpoint(dir, files)
    IN IF ~WasInterrupted(f) /\ ~forceRecover THEN [lock |-> f, returned |-> NullState]
       ELSE IF named.is = "state" THEN [lock |-> ReleaseLock(f), returned |-> named]
       ELSE IF latest.is = "state" THEN [lock |-> ReleaseLock(f), returned |-> latest]
       ELSE [lock |-> f, returned |-> NullState]

\* recover(forceRecover): the checkpoint of the lock record, else the latest one,
\* else null; the lock is released on each of the three paths
Recover(f, dir, files, forceRecover) ==
    LET info   == GetInterruptionInfo(f)
        named  == IF info.is = "info" /\ info.checkpointId # NoId
                  THEN StoreLoadCheckpoint(dir, info.checkpointId)
                  ELSE NullState
        latest == LoadLatestCheckpoint(dir, files)
    IN IF ~WasInterrupted(f) /\ ~forceRecover THEN [lock |-> f, returned |-> NullState]
       ELSE IF named.is = "state" THEN [lock |-> ReleaseLock(f), returned |-> named]
       ELSE IF latest.is = "state" THEN [lock |-> ReleaseLock(f), returned |-> latest]
       ELSE [lock |-> ReleaseLock(f), returned |-> NullState]

NoStoreCall == [op |-> "none", arg |-> 0, force |-> FALSE, fresh |-> FALSE,
                returned |-> NullState, deleted |-> 0]

IdleStore ==
    /\ ckDir = [id \in StoreIds |-> NoRecord]
    /\ ckCall = NoStoreCall

StoreOnly == UNCHANGED <<orchVars, rateVars, ckptVars, graphVars, bucketVars, usageVars,
                         lcall, proc, saved>>

\* an empty directory and a new CheckpointManager; the lock path holds nothing, or
\* what a killed run left there
InitStore ==
    /\ IdleStore
    /\ lockFile \in {NoLock, CorruptLock}
                       \cup {LockData(1, id) : id \in {NoId} \cup StoreIds}
    /\ lcall = NoLockCall
    /\ IdleProcs

\* the directory is written by saves, by saves that lose the process, and by
\* the start of another process; the method under study is then called on it
Writing == ckCall.op \in {"none", "saveCheckpoint", "crash", "constructor"}

\* saveCheckpoint of a state with this id at time ts, written to its end
SaveCall(id, ts) ==
    /\ Writing
    /\ ckDir' = [ckDir EXCEPT ![id] = RecordOf(DataAt(id, ts))]
    /\ ckCall' = [NoStoreCall EXCEPT !.op = "saveCheckpoint"]
    /\ UNCHANGED lockFile
    /\ StoreOnly

\* checkpoint.ts:94: the process is lost inside writeFileSync on the final path
CrashInSave(id) ==
    /\ Writing
    /\ ckDir' = [ckDir EXCEPT ![id] = TruncatedRecord]
    /\ ckCall' = [NoStoreCall EXCEPT !.op = "crash"]
    /\ UNCHANGED lockFile
    /\ StoreOnly

\* new CheckpointManager(checkpointDir) on the directory as it is: the instance
\* holds the path of the directory and no currentCheckpointId
NewInstance ==
    /\ ckCall.op \in {"saveCheckpoint", "crash"}
    /\ ckCall' = [NoStoreCall EXCEPT !.op = "constructor"]
    /\ UNCHANGED <<ckDir, lockFile>>
    /\ StoreOnly

LoadLatestCall(files) ==
    /\ Writing
    /\ ckCall' = [NoStoreCall EXCEPT !.op = "loadLatestCheckpoint",
                                    !.fresh = (ckCall.op \in {"none", "constructor"}),
                                    !.returned = LoadLatestCheckpoint(ckDir, files)]
    /\ UNCHANGED <<ckDir, lockFile>>
    /\ StoreOnly

CleanupCall(files, keepCount) ==
    /\ Writing
    /\ LET r == CleanupOldCheckpoints(ckDir, files, keepCount)
       IN /\ ckDir' = r.dir
          /\ ckCall' = [NoStoreCall EXCEPT !.op = "cleanupOldCheckpoints",
                                          !.arg = keepCount, !.deleted = r.returned]
    /\ UNCHANGED lockFile
    /\ StoreOnly

RecoverCall(files, forceRecover) ==
    /\ Writing
    /\ LET r == Recover(lockFile, ckDir, files, forceRecover)
       IN /\ lockFile' = r.lock
          /\ ckCall' = [NoStoreCall EXCEPT !.op = "recover", !.force = forceRecover,
                                          !.returned = r.returned]
    /\ UNCHANGED ckDir
    /\ StoreOnly

KeepCounts == 0..MaxFiles

NextStore ==
    \/ \E id \in StoreIds, ts \in Stamps : SaveCall(id, ts)
    \/ \E id \in StoreIds : CrashInSave(id)
    \/ NewInstance
    \/ \E files \in Readdir(ckDir) : LoadLatestCall(files)
    \/ \E files \in Readdir(ckDir), keepCount \in KeepCounts : CleanupCall(files, keepCount)
    \/ \E files \in Readdir(ckDir), forceRecover \in BOOLEAN :
            RecoverCall(files, forceRecover)

\* C26: when the fetched tasks contain a dependency cycle, the step the run takes
\* from the fetch is the end of the process, at the fatal exit of main unless a
\* signal ended it first: no node is marked executing, no task enters the
\* in-progress set, no batch is selected and no attempt (permit, executor call)
\* is made.  A run is at the fetch when it starts and again when it is resumed.
C26_CycleAborts ==
    [][(pc = "fetch" /\ HasCycle(BuildGraph(EmptyGraph, taskData, AllTasks(taskData)))) =>
          /\ pc' \in {"fatal", "exited"}
          /\ ~Signal => pc' = "fatal"
          /\ \A n \in DOMAIN graph'.node : graph'.node[n].status # "executing"
          /\ state'.inProgressTasks = {}
          /\ batchTaskIds' = <<>>
          /\ attempt' = NoAttempts
          /\ result' = NoAttempts
      ]_vars

\* a run with two tasks that depend on each other and a third, independent one
\* has ended in the fatal exit, its state saved
C26_Witness ==
    /\ pc = "fatal"
    /\ DOMAIN taskData = {1, 2, 3}
    /\ 2 \in taskData[1].dependencies
    /\ 1 \in taskData[2].dependencies
    /\ taskData[3].dependencies = {}
    /\ disk.exists

LoopPlaces == {"loop", "executing", "reconcile", "sink"}

\* C35: the number of pending nodes is a measure of the main loop: an iteration
\* that does not leave the loop dispatches a batch and lowers it, and nothing
\* inside the loop raises it, so the loop ends after at most as many iterations
\* as the graph has nodes
C35_LoopTerminates ==
    [][/\ (pc = "loop" /\ pc' \in LoopPlaces) =>
             /\ pc' = "executing"
             /\ StatusCount(graph', "pending") < StatusCount(graph, "pending")
       /\ (pc \in LoopPlaces /\ pc' \in LoopPlaces) =>
             /\ StatusCount(graph', "pending") <= StatusCount(graph, "pending")
             /\ DOMAIN graph'.node = DOMAIN graph.node]_vars

\* a chain of three tasks has been run to its end in three iterations
C35_Witness ==
    /\ pc = "disconnect"
    /\ ~resumed
    /\ DOMAIN taskData = {1, 2, 3}
    /\ taskData[2].dependencies = {1}
    /\ taskData[3].dependencies = {2}
    /\ \A t \in {1, 2, 3} : Status(t) = "completed"

\* the fetched tasks all of whose dependencies, direct or not, are fetched
Closed == {t \in DOMAIN taskData : DependsOn(graph, t, {}) \subseteq DOMAIN taskData}

Settled(t) == Status(t) \in {"completed", "failed"}

\* C36: when the main loop has exited, every fetched task whose transitive
\* dependencies are all fetched is completed, failed or blocked, and it is
\* blocked only if one of its ancestors failed; a task becomes completed or
\* failed only from executing, that is after its dispatch, or when a resumed
\* run restores it from the checkpoint, and the checkpoint gains only tasks
\* that are completed or failed in the graph
C36_DrainGuarantee ==
    /\ [](pc = "disconnect" =>
            \A t \in Closed :
               /\ Status(t) \in {"completed", "failed", "blocked"}
               /\ (Status(t) = "blocked" =>
                      \E a \in DependsOn(graph, t, {}) : Status(a) = "failed"))
    /\ [][/\ \A t \in DOMAIN graph.node \cap DOMAIN graph'.node :
                (graph'.node[t].status \in {"completed", "failed"}
                    /\ graph'.node[t].status # Status(t)) =>
                   \/ Status(t) = "executing"
                   \/ pc = "restore" /\ t \in DiskCompleted \cup DiskFailed
          /\ (disk' # disk /\ disk'.exists) =>
                \A t \in (disk'.completedTasks \cup DOMAIN disk'.failedTasks)
                             \ (DiskCompleted \cup DiskFailed) :
                   t \in DOMAIN graph.node /\ Settled(t)]_vars

\* the loop has exited on the chain 1 <- 2 <- 3 with task 1 failed and the two
\* others blocked, never dispatched
C36_Witness ==
    /\ pc = "disconnect"
    /\ ~resumed
    /\ DOMAIN taskData = {1, 2, 3}
    /\ taskData[2].dependencies = {1}
    /\ taskData[3].dependencies = {2}
    /\ Status(1) = "failed"
    /\ Status(2) = "blocked"
    /\ Status(3) = "blocked"

\* C37: within a run a batch takes pending nodes only, each once, and a node
\* that has left pending never returns to it, so that no task is dispatched in
\* two batches of the run; getReadyTasks returns pending nodes only
C37_DispatchedOnce ==
    [][/\ Dispatches =>
             /\ \A t \in Range(batchTaskIds') : HasNode(graph, t) /\ Status(t) = "pending"
             /\ \A i, j \in DOMAIN batchTaskIds' :
                    batchTaskIds'[i] = batchTaskIds'[j] => i = j
       /\ \A t \in DOMAIN graph.node \cap DOMAIN graph'.node :
             graph'.node[t].status = "pending" => Status(t) = "pending"
       /\ \A t \in Range(GetReadyTasks(graph, state.completedTasks)) :
             Status(t) = "pending"]_vars

\* a second batch of a run is executing after a first one was reconciled
C37_Witness ==
    /\ pc = "executing"
    /\ ~resumed
    /\ \E t \in DOMAIN graph.node : Settled(t)
    /\ \E t \in Range(batchTaskIds) : Status(t) = "executing"

\* C38: a task that the status sink has just been told is done is in the
\* completed set of the checkpoint on disk, which is all that a killed process
\* leaves behind
C38_SinkDoneCheckpointed ==
    [][(/\ pc = "sink"
        /\ pc' = "reconcile"
        /\ result[batchTasks[ri]] = "success") =>
          (disk'.exists /\ batchTasks[ri] \in disk'.completedTasks)]_vars

\* the tasks whose executeWithRetry has not returned: each of them has at most
\* one executor call in flight, its attempts being sequential
InFlight == {t \in DOMAIN result : result[t] = "running"}

\* C28: at every moment at most maxParallel executions are in flight, all of
\* them tasks of the current batch, and only while the control flow awaits that
\* batch; the batch itself has at most maxParallel tasks
C28_BoundedParallelism ==
    /\ Cardinality(InFlight) <= maxParallel
    /\ Len(batchTaskIds) <= maxParallel
    /\ InFlight \subseteq Range(batchTaskIds)
    /\ InFlight # {} => pc = "executing"

\* three independent tasks with maxParallel = 2: two run, the third waits
C28_Witness ==
    /\ ThreeIndependent
    /\ maxParallel = 2
    /\ pc = "executing"
    /\ Cardinality(InFlight) = 2
    /\ \E t \in DOMAIN graph.node : graph.node[t].status = "pending"

\* the records of the directory: the files that parse
Records(dir) == {id \in DOMAIN dir : dir[id].parses}

Stamp(dir, id) == dir[id].data.timestamp

\* r is the state of a record of dir that no record of dir is newer than
IsLatestOf(dir, r) ==
    /\ r.is = "state"
    /\ \E id \in Records(dir) :
          /\ r.state = StateOfData(dir[id].data)
          /\ \A other \in Records(dir) : Stamp(dir, other) <= Stamp(dir, id)

\* the lock record names a checkpoint that loads
NamedLoads(f, dir) ==
    /\ f.exists /\ f.parses
    /\ f.checkpointId \in Records(dir)

C24_LoadLatest ==
    [][ckCall'.op = "loadLatestCheckpoint" =>
          /\ UNCHANGED <<ckDir, lockFile>>
          /\ IF Records(ckDir) = {} THEN ckCall'.returned = NullState
             ELSE IsLatestOf(ckDir, ckCall'.returned)
      ]_vars

\* a new instance has loaded the latest of several records from a directory that
\* also holds a file that does not parse
C24_Witness ==
    /\ ckCall.op = "loadLatestCheckpoint"
    /\ ckCall.fresh
    /\ ckCall.returned.is = "state"
    /\ \E id \in Records(ckDir) : Stamp(ckDir, id) < ckCall.returned.state.timestamp
    /\ \E id \in StoreIds : ckDir[id].exists /\ ~ckDir[id].parses

-----------------------------------------------------------------------------
(* ExponentialBackoff (rate-limit/backoff).  jitterFactor is kept in tenths and  *)
(* the value of Math.random() * 2 - 1, which lies in [-1, 1), in halves, so a    *)
(* delay is kept in units of 1/20 ms.                                            *)

Scaled(ms) == 20 * ms

JitterTenths == {0, 1, 10}

RandomHalves == {-2, -1, 0, 1}

BackoffConfigs ==
    [baseDelayMs : 0..MaxBaseDelay, maxDelayMs : 0..MaxDelayMs, jitterTenths : JitterTenths]

\* constructor: attempt = 0
NewBackoff(config) == config @@ [attempt |-> 0]

\* getDelay(), x the value of Math.random() * 2 - 1 in halves
GetDelay(bo, x) ==
    LET exponentialDelay == bo.baseDelayMs * 2 ^ bo.attempt
        cappedDelay      == Min(exponentialDelay, bo.maxDelayMs)
        jitter           == cappedDelay * bo.jitterTenths * x
    IN Max(0, Scaled(cappedDelay) + jitter)

\* a variant of nextDelay that counts the attempt before it computes the delay
NextDelayAdvanceFirst(bo, x) ==
    LET advanced == [bo EXCEPT !.attempt = @ + 1]
    IN [backoff |-> advanced, delay |-> GetDelay(advanced, x)]

\* nextDelay(): the delay of the current attempt; the attempt is then counted
NextDelay(bo, x) ==
    [backoff |-> [bo EXCEPT !.attempt = @ + 1], delay |-> GetDelay(bo, x)]

\* reset()
ResetBackoff(bo) == [bo EXCEPT !.attempt = 0]

NoBackoff == [baseDelayMs |-> 0, maxDelayMs |-> 0, jitterTenths |-> 0, attempt |-> 0]

NoBackoffCall == [op |-> "none", returned |-> 0, since |-> 0]

NoUsage == [input |-> 0, output |-> 0, total |-> 0]

IdleUsage ==
    /\ tokenUsage = NoUsage
    /\ backoff = NoBackoff
    /\ bcall = NoBackoffCall

BackoffOnly == UNCHANGED <<orchVars, rateVars, ckptVars, graphVars, bucketVars, storeVars,
                           lockVars, tokenUsage>>

InitBackoff ==
    /\ tokenUsage = NoUsage
    /\ backoff \in {NewBackoff(c) : c \in BackoffConfigs}
    /\ bcall = NoBackoffCall

GetDelayCall(x) ==
    /\ bcall' = [bcall EXCEPT !.op = "getDelay", !.returned = GetDelay(backoff, x)]
    /\ UNCHANGED backoff
    /\ BackoffOnly

NextDelayCall(x) ==
    /\ backoff.attempt < MaxAttempt
    /\ LET n == NextDelay(backoff, x)
       IN /\ backoff' = n.backoff
          /\ bcall' = [op |-> "nextDelay", returned |-> n.delay, since |-> bcall.since + 1]
    /\ BackoffOnly

BackoffResetCall ==
    /\ backoff' = ResetBackoff(backoff)
    /\ bcall' = [op |-> "reset", returned |-> 0, since |-> 0]
    /\ BackoffOnly

NextBackoff ==
    \/ \E x \in RandomHalves : GetDelayCall(x)
    \/ \E x \in RandomHalves : NextDelayCall(x)
    \/ BackoffResetCall

\* min(maxDelay, base * 2^k), in the units of a returned delay
Schedule(bo, k) == Scaled(Min(bo.maxDelayMs, bo.baseDelayMs * 2 ^ k))

\* C30: with jitter factor 0 the k-th nextDelay since construction or the last
\* reset (k = 0, 1, 2, ...) returns min(maxDelay, base * 2^k) and advances the
\* attempt counter by one; getDelay returns the delay the next nextDelay would
\* and leaves the counter alone
C30_BackoffSchedule ==
    [][backoff.jitterTenths = 0 =>
          /\ bcall'.op = "nextDelay" /\ bcall'.since = bcall.since + 1 =>
                /\ bcall'.returned = Schedule(backoff, bcall.since)
                /\ backoff'.attempt = backoff.attempt + 1
          /\ bcall'.op = "getDelay" /\ bcall # bcall' =>
                /\ bcall'.returned = Schedule(backoff, bcall.since)
                /\ backoff' = backoff]_vars

\* the third nextDelay after a reset, where base * 4 exceeds the maximum delay
\* and base * 2 does not
C30_Witness ==
    /\ backoff.jitterTenths = 0
    /\ backoff.baseDelayMs = 2 /\ backoff.maxDelayMs = 5
    /\ bcall.op = "nextDelay" /\ bcall.since = 3
    /\ bcall.returned = Scaled(5)
    /\ backoff.attempt = 3

-----------------------------------------------------------------------------
(* RateLimitManager: usage counters and the backoff it owns (rate-limit/manager) *)

\* manager:29-33: the backoff of a manager, jitterFactor left at its default 0.1
ManagerBackoff ==
    NewBackoff([baseDelayMs |-> 1, maxDelayMs |-> MaxDelayMs, jitterTenths |-> 1])

\* usage of a response: nothing, input only, output only, both
UsageValues ==
    {[input |-> 0, output |-> 0, total |-> 0], [input |-> 1, output |-> 0, total |-> 1],
     [input |-> 0, output |-> 1, total |-> 1], [input |-> 1, output |-> 1, total |-> 2]}

\* a variant of recordUsage that gives back to the buckets what the request
\* was estimated to use beyond what it used
RecordUsageReconciling(usage, bks, t) ==
    [bks EXCEPT !["itpm"] = SetTokens("itpm", @, t,
                               GetAvailable("itpm", @, t) + Units(1 - usage.input))]

\* manager:149-156 recordUsage: the buckets afterwards
RecordUsageBuckets(usage, bks, t) == bks

InitUsage ==
    /\ InitRate
    /\ tokenUsage = NoUsage
    /\ backoff = ManagerBackoff
    /\ bcall = NoBackoffCall

\* one pass of acquirePermit by some caller
PermitPass(estIn, estOut) ==
    /\ LET a == PermitAttempt(bucket, now, estIn, estOut)
       IN /\ bucket' = a.buckets
          /\ granted' = IF a.at = "granted" THEN granted + 1 ELSE granted
    /\ UNCHANGED <<now, rpc, est, wakeAt>>
    /\ UNCHANGED <<orchVars, ckptVars, apiVars, lockVars>>

UsageOnly == UNCHANGED <<orchVars, ckptVars, graphVars, bucketVars, storeVars, lockVars>>

RecordUsage(usage) ==
    /\ tokenUsage.input + usage.input + tokenUsage.output + usage.output <= MaxUsage
    /\ tokenUsage' = [input  |-> tokenUsage.input + usage.input,
                      output |-> tokenUsage.output + usage.output,
                      total  |-> tokenUsage.total + usage.total]
    /\ backoff' = ResetBackoff(backoff)
    /\ bcall' = [op |-> "recordUsage", returned |-> 0, since |-> 0]
    /\ bucket' = RecordUsageBuckets(usage, bucket, now)
    /\ UNCHANGED <<now, rpc, est, wakeAt, granted>>
    /\ UsageOnly

\* manager:95-114 handle429Error: retryAfterSeconds = 0 stands for a response
\* without the header too, both being falsy
Handle429Error(retryAfterSeconds, x) ==
    /\ backoff.attempt < MaxAttempt
    /\ IF retryAfterSeconds # 0
       THEN /\ bcall' = [bcall EXCEPT !.op = "handle429Error",
                                      !.returned = Scaled(retryAfterSeconds * 1000)]
            /\ UNCHANGED backoff
       ELSE LET n == NextDelay(backoff, x)
            IN /\ backoff' = n.backoff
               /\ bcall' = [op |-> "handle429Error", returned |-> n.delay,
                            since |-> bcall.since + 1]
    /\ UNCHANGED <<rateVars, tokenUsage>>
    /\ UsageOnly

NextUsage ==
    \/ \E i \in 1..MaxEstimate, o \in 0..MaxEstimate : PermitPass(i, o)
    \/ Tick
    \/ \E u \in UsageValues : RecordUsage(u)
    \/ Handle429Error(1, 0)
    \/ \E x \in {-2, 1} : Handle429Error(0, x)

\* C29: recordUsage leaves the level of the request, input-token and
\* output-token buckets as it was, for any usage values; it changes the usage
\* counters and the attempt counter of the backoff only
C29_RecordUsageFrame ==
    [][bcall'.op = "recordUsage" /\ (bcall # bcall' \/ tokenUsage # tokenUsage') =>
          /\ \A b \in Dimensions : /\ bucket'[b] = bucket[b]
                                   /\ Level(b, bucket'[b], now') = Level(b, bucket[b], now)
          /\ granted' = granted
          /\ [backoff' EXCEPT !.attempt = 0] = [backoff EXCEPT !.attempt = 0]
          /\ backoff'.attempt = 0]_vars

\* recordUsage of a request that used less input than the permit it got was for
C29_Witness ==
    /\ bcall.op = "recordUsage"
    /\ tokenUsage.input = 1 /\ tokenUsage.output = 1 /\ tokenUsage.total = 2
    /\ granted = 1
    /\ Level("itpm", bucket["itpm"], now) = Units(ItpmCapacity - MaxEstimate)

-----------------------------------------------------------------------------
(* executeWithRetry and the backoff of the manager (main.ts:137-205): the tasks *)
(* of one batch, each in its retry loop, sharing one RateLimitManager.  The     *)
(* admission of an attempt is left to the rate limit manager above.             *)

RetryIdleOrch ==
    /\ pc = "idle"
    /\ taskData = <<>>
    /\ maxParallel = 1
    /\ dryRun = FALSE
    /\ resumed = FALSE
    /\ graph = EmptyGraph
    /\ state = EmptyState
    /\ batchTaskIds = <<>>
    /\ batchTasks = <<>>
    /\ ri = 0
    /\ disk = NoCheckpoint

\* a batch of one task or more; the manager is new
InitRetry ==
    /\ result \in [Callers -> {"running", "absent"}]
    /\ \E t \in Callers : result[t] = "running"
    /\ attempt = [t \in Callers |-> 0]
    /\ last = [t \in Callers |-> "none"]
    /\ tokenUsage = NoUsage
    /\ backoff = ManagerBackoff
    /\ bcall = NoBackoffCall

RetryOnly ==
    UNCHANGED <<pc, taskData, maxParallel, dryRun, resumed, graph, state, batchTaskIds,
                batchTasks, ri, disk, rateVars, ckptVars, graphVars, bucketVars, storeVars,
                lockVars>>

\* executor.ts:116-120 and 176: the tokensUsed of a result; a result made from an
\* API error carries zeros
UsagesOf(o) == IF o \in {"success", "nonretryable"} THEN UsageValues ELSE {NoUsage}

\* manager:149-156 recordUsage, as called at main.ts:162
AfterRecordUsage(m, usage) ==
    [tokenUsage |-> [input  |-> m.tokenUsage.input + usage.input,
                     output |-> m.tokenUsage.output + usage.output,
                     total  |-> m.tokenUsage.total + usage.total],
     backoff    |-> ResetBackoff(m.backoff),
     bcall      |-> [op |-> "recordUsage", returned |-> 0, since |-> 0]]

\* manager:95-114 handle429Error(), as called at main.ts:172 and 187
AfterHandle429(m, x) ==
    LET n == NextDelay(m.backoff, x)
    IN [tokenUsage |-> m.tokenUsage,
        backoff    |-> n.backoff,
        bcall      |-> [op |-> "handle429Error", returned |-> n.delay,
                        since |-> m.bcall.since + 1]]

\* main.ts:144-190: the attempt of task t ends in outcome o: a returned result
\* is recorded as usage, and the loop then waits for a retry or returns
RetryStep(t, o, usage, x) ==
    /\ result[t] = "running"
    /\ tokenUsage.input + usage.input + tokenUsage.output + usage.output <= MaxUsage
    /\ LET m0 == [tokenUsage |-> tokenUsage, backoff |-> backoff, bcall |-> bcall]
           m1 == IF o = "threw" THEN m0 ELSE AfterRecordUsage(m0, usage)
           m2 == IF RetryAfter(o, attempt[t]) THEN AfterHandle429(m1, x) ELSE m1
       IN /\ tokenUsage' = m2.tokenUsage
          /\ backoff' = m2.backoff
          /\ bcall' = m2.bcall
    /\ IF RetryAfter(o, attempt[t])
       THEN /\ attempt' = [attempt EXCEPT ![t] = @ + 1]
            /\ last' = [last EXCEPT ![t] = o]
            /\ result' = result
       ELSE /\ attempt' = attempt
            /\ last' = [last EXCEPT ![t] = "none"]
            /\ result' = [result EXCEPT ![t] = ResultOf(o)]
    /\ RetryOnly

NextRetry ==
    \E t \in Callers, o \in Outcomes, x \in RandomHalves :
       \E usage \in UsagesOf(o) : RetryStep(t, o, usage, x)

\* a wait is the scheduled delay, jitter aside
JitterAside(bo, wait, scheduled) ==
    /\ 10 * (wait - scheduled) <= bo.jitterTenths * scheduled
    /\ 10 * (scheduled - wait) <= bo.jitterTenths * scheduled

\* task t has just failed with a retryable error and waits for its next attempt
RetryableFailure(t) == attempt'[t] = attempt[t] + 1 /\ last'[t] = "retryable"

\* C31: the shared attempt counter advances with each retryable failure, it is
\* reset to zero only when a request succeeds, and the waits of a task that
\* runs alone and keeps failing with retryable errors are base, 2 * base,
\* 4 * base, capped at the maximum, jitter aside
C31_RetryBackoffSchedule ==
    [][/\ \A t \in Callers :
             RetryableFailure(t) =>
                /\ backoff'.attempt = backoff.attempt + 1
                /\ (\A u \in Callers \ {t} : result[u] = "absent") /\ last[t] # "threw" =>
                      JitterAside(backoff, bcall'.returned, Schedule(backoff, attempt[t]))
       /\ backoff.attempt > 0 /\ backoff'.attempt = 0 =>
             \E t \in Callers : result[t] = "running" /\ result'[t] = "success"]_vars

-----------------------------------------------------------------------------
(* The token levels of the manager's buckets under every operation that writes *)
(* them: the methods of TokenBucket, the rollbacks of acquirePermit and         *)
(* updateFromHeaders.  The clock is Tick's, which never goes back.              *)

\* token-bucket.ts:102-105 reset(): full, refilled now
ResetTokens(b, t) == [tokens |-> Units(Capacity(b)), lastRefill |-> t]

\* the counts handed to setTokens and the values parseInt reads from a header:
\* negative, within the capacity, and beyond it
HeaderCounts(cap) == {-1, 1, cap + 1}

\* manager:138-142: tokensRemaining * ratio for the input bucket and
\* tokensRemaining * (1 - ratio) for the output bucket, the ratio being
\* part / whole.  Levels are held in whole units; a product between two units
\* is taken as either neighbour
Shares(tokensRemaining, part, whole) ==
    LET q == (Units(tokensRemaining) * part) \div whole
    IN IF q * whole = Units(tokensRemaining) * part THEN {q} ELSE {q, q + 1}

\* tryConsume(count) on one bucket
LevelTryConsume(b, count) ==
    /\ bucket' = [bucket EXCEPT ![b] = TryConsume(b, @, now, count)]
    /\ UNCHANGED <<now, rpc, est, wakeAt, granted>>
    /\ UNCHANGED <<orchVars, ckptVars, apiVars, lockVars>>

\* getWaitTime(count) and getAvailable() on one bucket: both refill it and
\* write nothing else
LevelObserve(b) ==
    /\ bucket' = [bucket EXCEPT ![b] = Refill(b, @, now)]
    /\ UNCHANGED <<now, rpc, est, wakeAt, granted>>
    /\ UNCHANGED <<orchVars, ckptVars, apiVars, lockVars>>

\* setTokens(count) on one bucket
LevelSetTokens(b, count) ==
    /\ bucket' = [bucket EXCEPT ![b] = SetTokens(b, @, now, Units(count))]
    /\ UNCHANGED <<now, rpc, est, wakeAt, granted>>
    /\ UNCHANGED <<orchVars, ckptVars, apiVars, lockVars>>

\* reset() on one bucket
LevelReset(b) ==
    /\ bucket' = [bucket EXCEPT ![b] = ResetTokens(b, now)]
    /\ UNCHANGED <<now, rpc, est, wakeAt, granted>>
    /\ UNCHANGED <<orchVars, ckptVars, apiVars, lockVars>>

\* a pass of acquirePermit that ends in a rollback and a sleep
RollbackPass(estIn, estOut) ==
    /\ LET a == PermitAttempt(bucket, now, estIn, estOut)
       IN /\ a.at \in {"wait_itpm", "wait_otpm"}
          /\ bucket' = a.buckets
    /\ UNCHANGED <<now, rpc, est, wakeAt, granted>>
    /\ UNCHANGED <<orchVars, ckptVars, apiVars, lockVars>>

\* manager:119-144 updateFromHeaders: a header that is absent or not a number
\* (parseInt gives NaN) leaves its buckets alone
UpdateFromHeaders(hasRequests, requestsRemaining, hasTokens, tokensRemaining) ==
    /\ hasRequests \/ hasTokens
    /\ LET b1 == IF hasRequests
                 THEN [bucket EXCEPT !["rpm"] =
                          SetTokens("rpm", @, now, Units(requestsRemaining))]
                 ELSE bucket
           a  == GetAvailable("itpm", b1["itpm"], now)
           b  == GetAvailable("otpm", b1["otpm"], now)
           \* (a + b) || 1
           w  == IF a + b = 0 THEN 1 ELSE a + b
       IN IF hasTokens
          THEN \E i \in Shares(tokensRemaining, a, w),
                  o \in Shares(tokensRemaining, w - a, w) :
                  bucket' = [b1 EXCEPT
                               !["itpm"] = SetTokens("itpm", @, now, i),
                               !["otpm"] = SetTokens("otpm", @, now, o)]
          ELSE bucket' = b1
    /\ UNCHANGED <<now, rpc, est, wakeAt, granted>>
    /\ UNCHANGED <<orchVars, ckptVars, apiVars, lockVars>>

NextLevels ==
    \/ \E b \in Dimensions, count \in 1..MaxEstimate : LevelTryConsume(b, count)
    \/ \E b \in Dimensions : LevelObserve(b)
    \/ \E b \in Dimensions : \E count \in HeaderCounts(Capacity(b)) :
          LevelSetTokens(b, count)
    \/ \E b \in Dimensions : LevelReset(b)
    \/ \E i \in 1..MaxEstimate, o \in 0..MaxEstimate : RollbackPass(i, o)
    \/ \E r \in HeaderCounts(RpmCapacity) : UpdateFromHeaders(TRUE, r, FALSE, 0)
    \/ \E t \in HeaderCounts(ItpmCapacity + OtpmCapacity) :
          UpdateFromHeaders(FALSE, 0, TRUE, t)
    \/ \E r \in HeaderCounts(RpmCapacity), t \in HeaderCounts(ItpmCapacity + OtpmCapacity) :
          UpdateFromHeaders(TRUE, r, TRUE, t)
    \/ Tick

\* C40: the stored token level of each bucket, and the level it shows at the
\* present time, are at least zero and at most the capacity, after every
\* sequence of tryConsume, getWaitTime, getAvailable, setTokens, reset,
\* acquirePermit rollbacks and updateFromHeaders under a clock that never
\* goes back
C40_LevelsWithinCapacity ==
    \A b \in Dimensions :
       /\ bucket[b].lastRefill <= now
       /\ 0 <= bucket[b].tokens
       /\ bucket[b].tokens <= Units(Capacity(b))
       /\ 0 <= Level(b, bucket[b], now)
       /\ Level(b, bucket[b], now) <= Units(Capacity(b))

\* time has passed; the input bucket was emptied and the output bucket filled
\* at the present time, and the request bucket, partly used earlier, has since
\* earned more than it can hold
C40_Witness ==
    /\ now > 0
    /\ bucket["itpm"] = [tokens |-> 0, lastRefill |-> now]
    /\ bucket["otpm"] = [tokens |-> Units(OtpmCapacity), lastRefill |-> now]
    /\ bucket["rpm"].lastRefill < now
    /\ 0 < bucket["rpm"].tokens
    /\ bucket["rpm"].tokens + (now - bucket["rpm"].lastRefill) * RpmCapacity
          > Units(RpmCapacity)

-----------------------------------------------------------------------------
(* Specifications *)

IdleRate ==
    /\ now = 0
    /\ bucket = <<>>
    /\ rpc = <<>>
    /\ est = <<>>
    /\ wakeAt = <<>>
    /\ granted = 0

IdleCkpt ==
    /\ impl = "none"
    /\ memState = InitialState
    /\ finalFile = NoFile
    /\ tempFile = NoFile
    /\ prevFile = NoFile
    /\ cpc = "idle"
    /\ loaded = NotLoaded

IdleApi == IdleGraph /\ IdleBucket /\ IdleStore /\ IdleUsage

Init == InitOrch /\ IdleRate /\ IdleCkpt /\ IdleApi /\ IdleLock

InitRateOnly == IdleOrch /\ InitRate /\ IdleCkpt /\ IdleApi /\ IdleLock

Next == NextOrch

Spec == Init /\ [][Next]_vars

SpecRate == InitRateOnly /\ [][NextRate]_vars

SpecAdmit == InitRateOnly /\ [][NextAdmit]_vars /\ FairAdmit

InitCkptOnly == IdleOrch /\ IdleRate /\ InitCkpt /\ IdleApi /\ IdleLock

SpecCkpt == InitCkptOnly /\ [][NextCkpt]_vars

InitMarkOnly == IdleOrch /\ IdleRate /\ IdleCkpt /\ InitMark /\ IdleBucket /\ IdleStore /\ IdleUsage /\ IdleLock

SpecMark == InitMarkOnly /\ [][NextMark]_vars

InitGraphOnly == IdleOrch /\ IdleRate /\ IdleCkpt /\ InitGraph /\ IdleBucket /\ IdleStore /\ IdleUsage /\ IdleLock

SpecGraph == InitGraphOnly /\ [][NextGraph]_vars

InitBucketOnly == IdleOrch /\ IdleRate /\ IdleCkpt /\ IdleGraph /\ InitBucket /\ IdleStore /\ IdleUsage /\ IdleLock

SpecBucket == InitBucketOnly /\ [][NextBucket]_vars

InitLockOnly == IdleOrch /\ IdleRate /\ IdleCkpt /\ IdleApi /\ InitLock

SpecLock == InitLockOnly /\ [][NextLock]_vars

InitMainOnly == IdleOrch /\ IdleRate /\ IdleCkpt /\ IdleApi /\ InitMain

SpecMain == InitMainOnly /\ [][NextMain]_vars

InitStoreOnly == IdleOrch /\ IdleRate /\ IdleCkpt /\ IdleGraph /\ IdleBucket /\ InitStore
                 /\ IdleUsage

SpecStore == InitStoreOnly /\ [][NextStore]_vars

InitBackoffOnly == IdleOrch /\ IdleRate /\ IdleCkpt /\ IdleGraph /\ IdleBucket /\ IdleStore
                   /\ InitBackoff /\ IdleLock

SpecBackoff == InitBackoffOnly /\ [][NextBackoff]_vars

InitUsageOnly == IdleOrch /\ InitUsage /\ IdleCkpt /\ IdleGraph /\ IdleBucket /\ IdleStore
                 /\ IdleLock

SpecUsage == InitUsageOnly /\ [][NextUsage]_vars

InitRetryOnly == RetryIdleOrch /\ IdleRate /\ IdleCkpt /\ IdleGraph /\ IdleBucket /\ IdleStore
                 /\ InitRetry /\ IdleLock

SpecRetry == InitRetryOnly /\ [][NextRetry]_vars

SpecLevels == InitRateOnly /\ [][NextLevels]_vars

=============================================================================
